---------------------------- MODULE Spec2Model ----------------------------
(***************************************************************************)
(* A model of beadui (src/src/main.rs): the snapshot cache, the gateway    *)
(* client, the dependents map, the readiness/query pipeline and the        *)
(* edit/save pipeline of BeadUiApp.                                        *)
(*                                                                         *)
(* Sequential Rust code is modelled by operators that take the state they  *)
(* read and return the state they leave (records), and by actions that     *)
(* apply one whole handler.  The external `bd` process is the variable     *)
(* store (what the databases hold) plus, for every call, an input that     *)
(* says whether the process fails.                                         *)
(***************************************************************************)
EXTENDS Integers, Sequences, FiniteSets, TLC

VARIABLES
    store,           \* the bd databases, one per directory path (external)
    config,          \* BeadUiApp.config (AppConfig)
    issues,          \* BeadUiApp.issues
    selected_index,  \* BeadUiApp.selected_index
    filter_text,     \* BeadUiApp.filter_text
    error_message,   \* BeadUiApp.error_message
    sort_by,         \* BeadUiApp.sort_by
    sort_ascending,  \* BeadUiApp.sort_ascending
    current_issue,   \* BeadUiApp.current_issue
    edit_modified,   \* BeadUiApp.edit_modified
    column_filters,  \* BeadUiApp.column_filters
    dependents_map,  \* BeadUiApp.dependents_map
    snapshot_cache,  \* BeadUiApp.snapshot_cache (SnapshotCache)
    view,            \* what the last filtered_and_sorted_issues returned
    probe            \* observation of the gateway calls (a call-counting stub)

vars == <<store, config, issues, selected_index, filter_text, error_message,
          sort_by, sort_ascending, current_issue, edit_modified,
          column_filters, dependents_map, snapshot_cache, view, probe>>

appVars == <<config, issues, selected_index, filter_text, error_message,
             sort_by, sort_ascending, current_issue, edit_modified,
             column_filters, dependents_map, view>>

---------------------------------------------------------------------------
(* Bounds of the model.                                                    *)

\* How many times one id may be looked up between two clears of the harness.
MaxGets == 3
\* How many saves, and how many edits of the loaded detail, one run makes.
MaxSaves == 1
MaxEdits == 1

---------------------------------------------------------------------------
(* Option<T>, Result<T, String>, HashMap<K, V>.                            *)

None == [some |-> FALSE]
Some(v) == [some |-> TRUE, v |-> v]

Ok(v) == [ok |-> TRUE, val |-> v]
Err(e) == [ok |-> FALSE, err |-> e]

EmptyMap == [k \in {} |-> None]
MapInsert(m, k, v) == [x \in DOMAIN m \cup {k} |-> IF x = k THEN v ELSE m[x]]

Last(s) == s[Len(s)]

RECURSIVE Join(_, _)
\* [String]::join(sep)
Join(parts, sep) ==
    IF Len(parts) = 0 THEN ""
    ELSE IF Len(parts) = 1 THEN parts[1]
    ELSE parts[1] \o sep \o Join(Tail(parts), sep)

\* let x = v; F(x): the statements of the code run in order, so v is computed
\* once, here, and F works on its value.
Bind(v, F(_)) == CHOOSE out \in {F(x) : x \in {v}} : TRUE

RECURSIVE ForEach(_, _, _, _)
\* for k in lo..=hi { acc = Step(acc, k) }: the first half of the range,
\* then the second half on what the first half leaves.
ForEach(Step(_, _), lo, hi, acc) ==
    IF lo > hi THEN acc
    ELSE IF lo = hi THEN Step(acc, lo)
    ELSE Bind(ForEach(Step, lo, (lo + hi) \div 2, acc), LAMBDA left :
            ForEach(Step, (lo + hi) \div 2 + 1, hi, left))

---------------------------------------------------------------------------
(* The issue universe and the directories of the model.                    *)

IssueIds == {"a", "b", "c", "d"}

HomeDir == <<"home", "u">>
PathA == <<"home", "u", "a", "repo">>
PathB == <<"home", "u", "b", "repo">>
DirPaths == {PathA, PathB}
\* `bd` run without --db uses the database of the working directory.
CwdPath == PathA

\* One stored issue: what a bd database holds for an id.
StoredIssue(title, status, priority, assignee, notes, deps) ==
    [title |-> title, description |-> "", status |-> status,
     priority |-> priority, issue_type |-> "task", assignee |-> assignee,
     notes |-> notes, deps |-> deps]

\* A bd database: the ids in list order and the record of each.
Db(ids, rec) == [ids |-> ids, rec |-> rec]

\* struct Issue, as serde fills it from the JSON of `bd show` / `bd list`.
Issue(id, s, dependencies) ==
    [id |-> id, title |-> s.title, description |-> s.description,
     status |-> s.status,
     priority |-> s.priority, issue_type |-> s.issue_type,
     assignee |-> s.assignee, notes |-> s.notes,
     dependencies |-> dependencies, source_directory |-> ""]

\* A blocker record inside Issue.dependencies (id and status are what the
\* program reads of it).
Blocker(db, id) ==
    [id |-> id,
     status |-> IF id \in DOMAIN db.rec THEN db.rec[id].status ELSE "open"]

---------------------------------------------------------------------------
(* BdClient: the gateway.  `down` says that this run of bd fails.          *)

\* The database a call addresses: --db <path>/.beads/*.db when the path is
\* given and holds one, bd's own default otherwise.
ResolveDb(st, db_path) ==
    IF db_path.some /\ db_path.v \in DOMAIN st THEN st[db_path.v]
    ELSE st[CwdPath]

BdClient_get_issue_uncached(st, id, db_path, down) ==
    IF down THEN Err("bd failed")
    ELSE Bind(ResolveDb(st, db_path), LAMBDA db :
            IF id \notin DOMAIN db.rec THEN Err("not found")
            ELSE Ok(Issue(id, db.rec[id],
                          [k \in 1..Len(db.rec[id].deps) |->
                              Blocker(db, db.rec[id].deps[k])])))

---------------------------------------------------------------------------
(* SnapshotCache.                                                          *)

SnapshotCache_new == [get_issue_cache |-> EmptyMap, issue_sources |-> EmptyMap]

SnapshotCache_clear_keep_memo(c) ==
    [get_issue_cache |-> c.get_issue_cache, issue_sources |-> EmptyMap]

SnapshotCache_clear(c) ==
    [get_issue_cache |-> EmptyMap, issue_sources |-> EmptyMap]

\* register_issue_source that keeps the registration an id already has.
SnapshotCache_register_issue_source_keep_first(c, issue_id, source_directory, db_path) ==
    IF issue_id \in DOMAIN c.issue_sources THEN c
    ELSE [c EXCEPT !.issue_sources =
             MapInsert(@, issue_id,
                       [source_directory |-> source_directory, db_path |-> db_path])]

SnapshotCache_register_issue_source(c, issue_id, source_directory, db_path) ==
    [c EXCEPT !.issue_sources =
        MapInsert(@, issue_id,
                  [source_directory |-> source_directory, db_path |-> db_path])]

\* get_issue without the insert into get_issue_cache.
SnapshotCache_get_issue_no_store(c, id, st, down) ==
    IF id \in DOMAIN c.get_issue_cache
    THEN [cache |-> c, result |-> Ok(c.get_issue_cache[id]), fetched |-> FALSE]
    ELSE LET db_path == IF id \in DOMAIN c.issue_sources
                        THEN c.issue_sources[id].db_path ELSE None
         IN Bind(BdClient_get_issue_uncached(st, id, db_path, down), LAMBDA r :
               [cache |-> c, result |-> r, fetched |-> TRUE])

\* get_issue that memoizes the failure as well (an empty record).
SnapshotCache_get_issue_memo_err(c, id, st, down) ==
    IF id \in DOMAIN c.get_issue_cache
    THEN [cache |-> c, result |-> Ok(c.get_issue_cache[id]), fetched |-> FALSE]
    ELSE LET db_path == IF id \in DOMAIN c.issue_sources
                        THEN c.issue_sources[id].db_path ELSE None
         IN Bind(BdClient_get_issue_uncached(st, id, db_path, down), LAMBDA r :
               [cache |-> [c EXCEPT !.get_issue_cache =
                              MapInsert(@, id,
                                 IF r.ok THEN r.val
                                 ELSE Issue(id, StoredIssue("", "open", 0, None,
                                                            None, <<>>), <<>>))],
                result |-> r, fetched |-> TRUE])

\* Returns the cache it leaves, the Result, and whether bd was run.
SnapshotCache_get_issue(c, id, st, down) ==
    IF id \in DOMAIN c.get_issue_cache
    THEN [cache |-> c, result |-> Ok(c.get_issue_cache[id]), fetched |-> FALSE]
    ELSE LET db_path == IF id \in DOMAIN c.issue_sources
                        THEN c.issue_sources[id].db_path ELSE None
         IN Bind(BdClient_get_issue_uncached(st, id, db_path, down), LAMBDA r :
               IF r.ok
               THEN [cache |-> [c EXCEPT !.get_issue_cache =
                                   MapInsert(@, id, r.val)],
                     result |-> r, fetched |-> TRUE]
               ELSE [cache |-> c, result |-> r, fetched |-> TRUE])

---------------------------------------------------------------------------
(* AppConfig: the directory registry.                                      *)

DirectoryConfig(path, visible, display_name) ==
    [path |-> path, visible |-> visible, display_name |-> display_name]

\* PathBuf::file_name().and_then(to_str).unwrap_or("")
FileName(path) == IF Len(path) = 0 THEN "" ELSE Last(path)

IsPrefix(p, s) == Len(p) <= Len(s) /\ SubSeq(s, 1, Len(p)) = p

AppConfig_abbreviate_path(path) ==
    IF IsPrefix(HomeDir, path)
    THEN "~/" \o Join(SubSeq(path, Len(HomeDir) + 1, Len(path)), "/")
    ELSE "/" \o Join(path, "/")

\* Display names that are the base name even when it is shared.
AppConfig_compute_display_names_base_only(directories) ==
    [k \in 1..Len(directories) |->
        [directories[k] EXCEPT !.display_name = FileName(directories[k].path)]]

AppConfig_compute_display_names(directories) ==
    [k \in 1..Len(directories) |->
        LET base_name == FileName(directories[k].path)
            indices == {j \in 1..Len(directories) :
                           FileName(directories[j].path) = base_name}
        IN [directories[k] EXCEPT !.display_name =
              IF Cardinality(indices) = 1 THEN base_name
              ELSE base_name \o " (" \o
                   AppConfig_abbreviate_path(directories[k].path) \o ")"]]

---------------------------------------------------------------------------
(* BdClient: list and update.                                              *)

\* bd list --json: the records of the database, without their dependencies,
\* each stamped with source_directory.
BdClient_list_issues(st, db_path, source_directory, down) ==
    IF down THEN Err("bd failed")
    ELSE Bind(ResolveDb(st, db_path), LAMBDA db :
            Ok([k \in 1..Len(db.ids) |->
                  [Issue(db.ids[k], db.rec[db.ids[k]], <<>>)
                      EXCEPT !.source_directory = source_directory]]))

RECURSIVE BdClient_list_issues_from_all_abort(_, _, _, _)
\* The aggregation that gives up at the first directory whose list fails.
BdClient_list_issues_from_all_abort(st, directories, downDirs, k) ==
    IF k > Len(directories) THEN <<>>
    ELSE LET dir_config == directories[k]
             source_name == IF dir_config.display_name = ""
                            THEN FileName(dir_config.path)
                            ELSE dir_config.display_name
         IN IF ~dir_config.visible
            THEN BdClient_list_issues_from_all_abort(st, directories, downDirs, k + 1)
            ELSE Bind(BdClient_list_issues(st, Some(dir_config.path),
                                           source_name, k \in downDirs),
                      LAMBDA r :
                    IF r.ok
                    THEN r.val \o BdClient_list_issues_from_all_abort(
                                     st, directories, downDirs, k + 1)
                    ELSE <<>>)

RECURSIVE BdClient_list_issues_from_all_prepend(_, _, _, _)
\* The aggregation that puts each directory's issues before those it has.
BdClient_list_issues_from_all_prepend(st, directories, downDirs, k) ==
    IF k > Len(directories) THEN <<>>
    ELSE LET dir_config == directories[k]
             source_name == IF dir_config.display_name = ""
                            THEN FileName(dir_config.path)
                            ELSE dir_config.display_name
         IN IF ~dir_config.visible
            THEN BdClient_list_issues_from_all_prepend(st, directories, downDirs, k + 1)
            ELSE Bind(BdClient_list_issues(st, Some(dir_config.path),
                                           source_name, k \in downDirs),
                      LAMBDA r :
                    IF r.ok
                    THEN BdClient_list_issues_from_all_prepend(
                             st, directories, downDirs, k + 1) \o r.val
                    ELSE BdClient_list_issues_from_all_prepend(
                             st, directories, downDirs, k + 1))

RECURSIVE BdClient_list_issues_from_all(_, _, _, _)
\* downDirs: the indices of the directories whose bd list fails; k: the
\* directory the loop is at.
BdClient_list_issues_from_all(st, directories, downDirs, k) ==
    IF k > Len(directories) THEN <<>>
    ELSE LET dir_config == directories[k]
             source_name == IF dir_config.display_name = ""
                            THEN FileName(dir_config.path)
                            ELSE dir_config.display_name
         IN Bind(BdClient_list_issues_from_all(st, directories, downDirs, k + 1),
                 LAMBDA rest :
               IF ~dir_config.visible THEN rest
               ELSE Bind(BdClient_list_issues(st, Some(dir_config.path),
                                              source_name, k \in downDirs),
                         LAMBDA r : IF r.ok THEN r.val \o rest ELSE rest))

---------------------------------------------------------------------------
(* Lookups through the snapshot cache inside one handler.  g carries the   *)
(* cache and att, the number of runs of bd show per id in this handler;    *)
(* fails[id] is the number of runs for id that fail before one succeeds    *)
(* (MaxFail: every run of this handler fails).                             *)

MaxFail == 2

FailChoices == [IssueIds -> 0..MaxFail]

G0(cache) == [cache |-> cache, att |-> [i \in IssueIds |-> 0]]

Get(g, id, st, fails) ==
    LET down == fails[id] = MaxFail \/ g.att[id] < fails[id] IN
    Bind(SnapshotCache_get_issue(g.cache, id, st, down), LAMBDA r :
       [g |-> [cache |-> r.cache,
               att |-> IF r.fetched THEN [g.att EXCEPT ![id] = @ + 1] ELSE g.att],
        result |-> r.result])

---------------------------------------------------------------------------
(* BeadUiApp: dependents map and refresh.                                  *)

\* HashMap entry(k).or_insert_with(Vec::new).push(v)
MapPush(m, k, v) ==
    MapInsert(m, k, IF k \in DOMAIN m THEN Append(m[k], v) ELSE <<v>>)

RECURSIVE PushDependenciesReversed(_, _, _, _)
\* The edge stored the wrong way round: map[issue_id].push(dep.id).
PushDependenciesReversed(m, dependencies, issue_id, k) ==
    IF k > Len(dependencies) THEN m
    ELSE PushDependenciesReversed(MapPush(m, issue_id, dependencies[k].id),
                                  dependencies, issue_id, k + 1)

RECURSIVE PushDependencies(_, _, _, _)
\* for dep in &full_issue.dependencies { map[dep.id].push(issue_id) }
PushDependencies(m, dependencies, issue_id, k) ==
    IF k > Len(dependencies) THEN m
    ELSE PushDependencies(MapPush(m, dependencies[k].id, issue_id),
                          dependencies, issue_id, k + 1)

\* The loop that starts the map afresh when a detail cannot be fetched.
DependentsLoopResetOnFailure(iss, k, g, m, st, fails) ==
    ForEach(LAMBDA acc, i :
               Bind(Get(acc.g, iss[i].id, st, fails), LAMBDA r :
                  [g |-> r.g,
                   dependents_map |->
                      IF r.result.ok
                      THEN PushDependencies(acc.dependents_map,
                                            r.result.val.dependencies,
                                            iss[i].id, 1)
                      ELSE EmptyMap]),
            k, Len(iss), [g |-> g, dependents_map |-> m])

\* The loop of compute_dependents_map from issue k on.
DependentsLoop(iss, k, g, m, st, fails) ==
    ForEach(LAMBDA acc, i :
               Bind(Get(acc.g, iss[i].id, st, fails), LAMBDA r :
                  [g |-> r.g,
                   dependents_map |->
                      IF r.result.ok
                      THEN PushDependencies(acc.dependents_map,
                                            r.result.val.dependencies, iss[i].id, 1)
                      ELSE acc.dependents_map]),
            k, Len(iss), [g |-> g, dependents_map |-> m])

BeadUiApp_compute_dependents_map(iss, g, st, fails) ==
    DependentsLoop(iss, 1, g, EmptyMap, st, fails)

\* The inner loop of refresh's registration, for one visible directory.
RegisterIssues(c, dir_config, iss, k) ==
    ForEach(LAMBDA acc, i :
               IF \/ iss[i].source_directory = dir_config.display_name
                  \/ /\ dir_config.display_name = ""
                     /\ iss[i].source_directory = FileName(dir_config.path)
               THEN SnapshotCache_register_issue_source(
                        acc, iss[i].id, iss[i].source_directory,
                        Some(dir_config.path))
               ELSE acc,
            k, Len(iss), c)

RECURSIVE RegisterSources(_, _, _, _)
RegisterSources(c, directories, iss, k) ==
    IF k > Len(directories) THEN c
    ELSE Bind(IF directories[k].visible
              THEN RegisterIssues(c, directories[k], iss, 1) ELSE c,
              LAMBDA registered :
            RegisterSources(registered, directories, iss, k + 1))

\* refresh() without its snapshot_cache.clear().
BeadUiApp_refresh_keep_cache(st, cfg, cache, fails, downDirs) ==
    Bind(BdClient_list_issues_from_all(st, cfg.directories, downDirs, 1), LAMBDA iss :
    Bind(RegisterSources(cache, cfg.directories, iss, 1), LAMBDA registered :
    Bind(BeadUiApp_compute_dependents_map(iss, G0(registered), st, fails), LAMBDA d :
       [issues |-> iss, snapshot_cache |-> d.g.cache,
        dependents_map |-> d.dependents_map, error_message |-> None,
        att |-> d.g.att])))

\* refresh(): what it leaves in issues, snapshot_cache, dependents_map and
\* error_message, and g.att, the runs of bd show it made.
BeadUiApp_refresh(st, cfg, cache, fails, downDirs) ==
    Bind(SnapshotCache_clear(cache), LAMBDA cleared :
    Bind(BdClient_list_issues_from_all(st, cfg.directories, downDirs, 1), LAMBDA iss :
    Bind(RegisterSources(cleared, cfg.directories, iss, 1), LAMBDA registered :
    Bind(BeadUiApp_compute_dependents_map(iss, G0(registered), st, fails), LAMBDA d :
       [issues |-> iss, snapshot_cache |-> d.g.cache,
        dependents_map |-> d.dependents_map, error_message |-> None,
        att |-> d.g.att]))))

---------------------------------------------------------------------------
(* Strings.  A Rust String is a TLA+ string; where the program looks into  *)
(* one (comparison, lower-casing, substring search) the model uses its     *)
(* characters, which Chars gives for the strings of the model.             *)

Chars(s) ==
    CASE s = "" -> <<>>
      [] s = "-" -> <<"-">>
      [] s = "0" -> <<"0">>
      [] s = "1" -> <<"1">>
      [] s = "2" -> <<"2">>
      [] s = "3" -> <<"3">>
      [] s = "4" -> <<"4">>
      [] s = "a" -> <<"a">>
      [] s = "b" -> <<"b">>
      [] s = "c" -> <<"c">>
      [] s = "d" -> <<"d">>
      [] s = "x" -> <<"x">>
      [] s = "y" -> <<"y">>
      [] s = "n" -> <<"n">>
      [] s = "T1" -> <<"T", "1">>
      [] s = "t2" -> <<"t", "2">>
      [] s = "task" -> <<"t", "a", "s", "k">>
      [] s = "open" -> <<"o", "p", "e", "n">>
      [] s = "closed" -> <<"c", "l", "o", "s", "e", "d">>
      [] s = "in_progress" ->
            <<"i", "n", "_", "p", "r", "o", "g", "r", "e", "s", "s">>
      [] s = "deferred" -> <<"d", "e", "f", "e", "r", "r", "e", "d">>
      [] s = "ready" -> <<"r", "e", "a", "d", "y">>
      [] s = "blocked" -> <<"b", "l", "o", "c", "k", "e", "d">>
      [] s = "repo" -> <<"r", "e", "p", "o">>
      [] s = "repo (~/a/repo)" ->
            <<"r", "e", "p", "o", " ", "(", "~", "/", "a", "/",
              "r", "e", "p", "o", ")">>
      [] s = "repo (~/b/repo)" ->
            <<"r", "e", "p", "o", " ", "(", "~", "/", "b", "/",
              "r", "e", "p", "o", ")">>

\* The code point of a character.
CharCode(ch) ==
    CASE ch = " " -> 32 [] ch = "(" -> 40 [] ch = ")" -> 41 [] ch = "-" -> 45
      [] ch = "/" -> 47 [] ch = "0" -> 48 [] ch = "1" -> 49 [] ch = "2" -> 50
      [] ch = "3" -> 51 [] ch = "4" -> 52 [] ch = "T" -> 84 [] ch = "_" -> 95
      [] ch = "a" -> 97 [] ch = "b" -> 98 [] ch = "c" -> 99 [] ch = "d" -> 100
      [] ch = "e" -> 101 [] ch = "f" -> 102 [] ch = "g" -> 103
      [] ch = "i" -> 105 [] ch = "k" -> 107 [] ch = "l" -> 108
      [] ch = "n" -> 110 [] ch = "o" -> 111 [] ch = "p" -> 112
      [] ch = "r" -> 114 [] ch = "s" -> 115 [] ch = "t" -> 116
      [] ch = "x" -> 120 [] ch = "y" -> 121 [] ch = "~" -> 126

\* char::to_lowercase on the characters of the model.
LowerChar(ch) == IF ch = "T" THEN "t" ELSE ch

\* str::to_lowercase, as characters.
ToLowercase(s) == [k \in 1..Len(Chars(s)) |-> LowerChar(Chars(s)[k])]

\* str::contains on characters: pat occurs in txt as a contiguous run.
Contains(txt, pat) ==
    \E k \in 0..(Len(txt) - Len(pat)) : SubSeq(txt, k + 1, k + Len(pat)) = pat

\* Ordering: -1 (Less), 0 (Equal), 1 (Greater).
CmpInt(x, y) == IF x < y THEN 0 - 1 ELSE IF x > y THEN 1 ELSE 0

RECURSIVE CmpChars(_, _)
\* <[u8] as Ord>::cmp: lexicographic by code point, a prefix is less.
CmpChars(x, y) ==
    IF Len(x) = 0 THEN (IF Len(y) = 0 THEN 0 ELSE 0 - 1)
    ELSE IF Len(y) = 0 THEN 1
    ELSE IF CharCode(Head(x)) # CharCode(Head(y))
         THEN CmpInt(CharCode(Head(x)), CharCode(Head(y)))
    ELSE CmpChars(Tail(x), Tail(y))

\* String::cmp
CmpStr(x, y) == CmpChars(Chars(x), Chars(y))

\* Ordering::reverse
Reverse(o) == 0 - o

---------------------------------------------------------------------------
(* ColumnFilter and SortColumn.                                            *)

SortColumn == {"Id", "Directory", "Title", "Status", "Priority", "Type",
               "Assignee", "Blockers", "Dependents"}

ColumnFilter_new == {}
ColumnFilter_new_with_excluded(excluded) == {excluded[k] : k \in DOMAIN excluded}

ColumnFilter_is_filtered(excluded_values, value) == value \in excluded_values

ColumnFilter_toggle_exclude(excluded_values, value) ==
    IF value \in excluded_values THEN excluded_values \ {value}
    ELSE excluded_values \cup {value}

ColumnFilter_has_active_filters(excluded_values) == excluded_values # {}

---------------------------------------------------------------------------
(* BeadUiApp: readiness, column projection, the query pipeline.            *)

\* How many elements of s satisfy the filter status != "closed".
RECURSIVE CountOpen(_)
CountOpen(deps) ==
    IF Len(deps) = 0 THEN 0
    ELSE (IF Head(deps).status # "closed" THEN 1 ELSE 0) + CountOpen(Tail(deps))

\* get_blockers_count that runs bd show itself instead of asking the cache.
BeadUiApp_get_blockers_count_uncached(g, issue_id, st, fails) ==
    Bind(BdClient_get_issue_uncached(
             st, issue_id,
             IF issue_id \in DOMAIN g.cache.issue_sources
             THEN g.cache.issue_sources[issue_id].db_path ELSE None,
             fails[issue_id] = MaxFail), LAMBDA r :
       [g |-> [g EXCEPT !.att[issue_id] = @ + 1],
        n |-> IF r.ok THEN CountOpen(r.val.dependencies) ELSE 0,
        fetch_ok |-> r.ok])

\* get_blockers_count that counts one blocker when the lookup fails.
BeadUiApp_get_blockers_count_one_on_failure(g, issue_id, st, fails) ==
    Bind(Get(g, issue_id, st, fails), LAMBDA r :
       [g |-> r.g,
        n |-> IF r.result.ok THEN CountOpen(r.result.val.dependencies) ELSE 1,
        fetch_ok |-> r.result.ok])

BeadUiApp_get_blockers_count(g, issue_id, st, fails) ==
    Bind(Get(g, issue_id, st, fails), LAMBDA r :
       [g |-> r.g,
        n |-> IF r.result.ok THEN CountOpen(r.result.val.dependencies) ELSE 0,
        fetch_ok |-> r.result.ok])

BeadUiApp_get_dependents_count(dm, issue_id) ==
    IF issue_id \in DOMAIN dm THEN Len(dm[issue_id]) ELSE 0

\* get_readiness that tells "blocked" from the number of all dependencies.
BeadUiApp_get_readiness_any_dep(g, issue, st, fails) ==
    IF issue.status = "closed" THEN [g |-> g, readiness |-> "closed", called |-> FALSE, fetch_ok |-> FALSE]
    ELSE IF issue.status = "in_progress"
    THEN [g |-> g, readiness |-> "in_progress", called |-> FALSE, fetch_ok |-> FALSE]
    ELSE Bind(Get(g, issue.id, st, fails), LAMBDA r :
            [g |-> r.g,
             readiness |-> IF r.result.ok /\ Len(r.result.val.dependencies) > 0
                           THEN "blocked" ELSE "ready",
             called |-> TRUE, fetch_ok |-> r.result.ok])

\* Returns the readiness and, for an observer, whether the detail was looked
\* up and whether that lookup succeeded.
BeadUiApp_get_readiness(g, issue, st, fails) ==
    IF issue.status = "closed" THEN [g |-> g, readiness |-> "closed", called |-> FALSE, fetch_ok |-> FALSE]
    ELSE IF issue.status = "in_progress"
    THEN [g |-> g, readiness |-> "in_progress", called |-> FALSE, fetch_ok |-> FALSE]
    ELSE Bind(BeadUiApp_get_blockers_count(g, issue.id, st, fails),
              LAMBDA blockers_count :
            [g |-> blockers_count.g,
             readiness |-> IF blockers_count.n > 0 THEN "blocked" ELSE "ready",
             called |-> TRUE, fetch_ok |-> blockers_count.fetch_ok])

\* format!("P{}", priority)
PriorityText(priority) == "P" \o ToString(priority)

\* Option<String>::unwrap_or_else(|| "-")
AssigneeText(assignee) == IF assignee.some THEN assignee.v ELSE "-"

\* The match of lines 730-740: the display value of a column from the
\* pre-computed readiness and counts.
ProjectColumn(issue, column, readiness, blockers_count, dependents_count) ==
    CASE column = "Id" -> issue.id
      [] column = "Directory" -> issue.source_directory
      [] column = "Title" -> issue.title
      [] column = "Status" -> readiness
      [] column = "Priority" -> PriorityText(issue.priority)
      [] column = "Type" -> issue.issue_type
      [] column = "Assignee" -> AssigneeText(issue.assignee)
      [] column = "Blockers" -> ToString(blockers_count)
      [] column = "Dependents" -> ToString(dependents_count)

BeadUiApp_get_column_value(g, dm, issue, column, st, fails) ==
    CASE column = "Status" ->
            Bind(BeadUiApp_get_readiness(g, issue, st, fails), LAMBDA r :
               [g |-> r.g, value |-> r.readiness])
      [] column = "Blockers" ->
            Bind(BeadUiApp_get_blockers_count(g, issue.id, st, fails), LAMBDA b :
               [g |-> b.g, value |-> ToString(b.n)])
      [] OTHER ->
            [g |-> g,
             value |-> ProjectColumn(issue, column, "", 0,
                                     BeadUiApp_get_dependents_count(dm, issue.id))]

\* The values of a column over issues k.., as a set (HashSet).
ColumnValues(g, dm, iss, column, st, fails, k, acc) ==
    ForEach(LAMBDA seen, i :
               Bind(BeadUiApp_get_column_value(seen.g, dm, iss[i], column, st, fails),
                    LAMBDA r : [g |-> r.g, values |-> seen.values \cup {r.value}]),
            k, Len(iss), [g |-> g, values |-> acc])

BeadUiApp_get_column_cardinality(g, dm, iss, column, st, fails) ==
    Bind(ColumnValues(g, dm, iss, column, st, fails, 1, {}), LAMBDA r :
       [g |-> r.g, n |-> Cardinality(r.values)])

\* struct IssueDisplay; original_idx counts from 0 as in the program.
IssueDisplay(original_idx, issue, readiness, blockers_count, dependents_count) ==
    [original_idx |-> original_idx, issue |-> issue, readiness |-> readiness,
     blockers_count |-> blockers_count, dependents_count |-> dependents_count]

\* Lines 704-706 for issue k: readiness, then blockers_count, then
\* dependents_count, appended to the displays.  lookups observes whether
\* get_readiness looked the detail up and whether that succeeded, and
\* whether the lookup of get_blockers_count did.
PrecomputeIssue(g, dm, iss, st, fails, k, acc, obs) ==
    Bind(BeadUiApp_get_readiness(g, iss[k], st, fails), LAMBDA r :
    Bind(BeadUiApp_get_blockers_count(r.g, iss[k].id, st, fails), LAMBDA b :
       [g |-> b.g,
        displays |-> Append(acc, IssueDisplay(k - 1, iss[k], r.readiness, b.n,
                                 BeadUiApp_get_dependents_count(dm, iss[k].id))),
        lookups |-> Append(obs, [called |-> r.called, fetch_ok |-> r.fetch_ok,
                                 count_ok |-> b.fetch_ok])]))

\* Lines 704-706 for the issues k.., in list order.
Precompute(g, dm, iss, st, fails, k, acc, obs) ==
    ForEach(LAMBDA p, i :
               PrecomputeIssue(p.g, dm, iss, st, fails, i, p.displays, p.lookups),
            k, Len(iss), [g |-> g, displays |-> acc, lookups |-> obs])

\* The text predicate that compares the fields as they are written.
TextMatchCaseSensitive(d, filter) ==
    \/ Contains(Chars(d.issue.id), filter)
    \/ Contains(Chars(d.issue.title), filter)
    \/ Contains(Chars(d.issue.description), filter)
    \/ Contains(Chars(d.issue.status), filter)
    \/ Contains(Chars(d.issue.issue_type), filter)
    \/ (d.issue.assignee.some /\ Contains(Chars(d.issue.assignee.v), filter))
    \/ Contains(Chars(d.readiness), filter)
    \/ Contains(Chars(ToString(d.blockers_count)), filter)
    \/ Contains(Chars(ToString(d.dependents_count)), filter)

\* Lines 709-726: the text predicate; filter is the lower-cased filter text.
TextMatch(d, filter) ==
    \/ Contains(ToLowercase(d.issue.id), filter)
    \/ Contains(ToLowercase(d.issue.title), filter)
    \/ Contains(ToLowercase(d.issue.description), filter)
    \/ Contains(ToLowercase(d.issue.status), filter)
    \/ Contains(ToLowercase(d.issue.issue_type), filter)
    \/ (d.issue.assignee.some /\ Contains(ToLowercase(d.issue.assignee.v), filter))
    \/ Contains(ToLowercase(d.readiness), filter)
    \/ Contains(Chars(ToString(d.blockers_count)), filter)
    \/ Contains(Chars(ToString(d.dependents_count)), filter)

\* Column filters that drop an issue only when every column excludes it.
ColumnMatchAny(d, filters) ==
    \/ DOMAIN filters = {}
    \/ \E column \in DOMAIN filters :
        ~ColumnFilter_is_filtered(
             filters[column],
             ProjectColumn(d.issue, column, d.readiness, d.blockers_count,
                           d.dependents_count))

\* Lines 728-744: no column filter excludes the issue's value.
ColumnMatch(d, filters) ==
    \A column \in DOMAIN filters :
        ~ColumnFilter_is_filtered(
             filters[column],
             ProjectColumn(d.issue, column, d.readiness, d.blockers_count,
                           d.dependents_count))

\* The filter_map of lines 699-754 on the pre-computed displays.
Retained(d, text, filters) ==
    /\ (Len(ToLowercase(text)) # 0 => TextMatch(d, ToLowercase(text)))
    /\ ColumnMatch(d, filters)

\* The match of lines 757-772.
SortCmp(a, b, by) ==
    CASE by = "Id" -> CmpStr(a.issue.id, b.issue.id)
      [] by = "Directory" -> CmpStr(a.issue.source_directory, b.issue.source_directory)
      [] by = "Title" -> CmpStr(a.issue.title, b.issue.title)
      [] by = "Status" -> CmpStr(a.readiness, b.readiness)
      [] by = "Priority" -> CmpInt(a.issue.priority, b.issue.priority)
      [] by = "Type" -> CmpStr(a.issue.issue_type, b.issue.issue_type)
      [] by = "Assignee" ->
            CmpStr(IF a.issue.assignee.some THEN a.issue.assignee.v ELSE "",
                   IF b.issue.assignee.some THEN b.issue.assignee.v ELSE "")
      [] by = "Blockers" -> CmpInt(a.blockers_count, b.blockers_count)
      [] by = "Dependents" -> CmpInt(a.dependents_count, b.dependents_count)

\* The closure without its cmp.reverse().
SortOrderNeverReversed(a, b, by, ascending) == SortCmp(a, b, by)

\* The closure given to sort_by (lines 756-778).
SortOrder(a, b, by, ascending) ==
    IF ascending THEN SortCmp(a, b, by) ELSE Reverse(SortCmp(a, b, by))

\* x behind the elements that compare Less than it only: an unstable sort.
InsertBeforeEqual(sorted, x, by, ascending) ==
    LET before == {i \in 1..Len(sorted) : SortOrder(sorted[i], x, by, ascending) < 0}
        at == IF before = {} THEN 0 ELSE CHOOSE i \in before : \A j \in before : j <= i
    IN SubSeq(sorted, 1, at) \o <<x>> \o SubSeq(sorted, at + 1, Len(sorted))

\* x behind the last element that does not compare Greater than it.
InsertStable(sorted, x, by, ascending) ==
    LET before == {i \in 1..Len(sorted) : SortOrder(sorted[i], x, by, ascending) <= 0}
        at == IF before = {} THEN 0 ELSE CHOOSE i \in before : \A j \in before : j <= i
    IN SubSeq(sorted, 1, at) \o <<x>> \o SubSeq(sorted, at + 1, Len(sorted))

\* Vec::sort_by, a stable sort: the result of inserting the first k elements
\* in order.
StableSort(s, k, by, ascending) ==
    ForEach(LAMBDA sorted, i : InsertStable(sorted, s[i], by, ascending),
            1, k, <<>>)

SelectSeq3(s, text, filters) ==
    LET Keep(d) == Retained(d, text, filters) IN SelectSeq(s, Keep)

\* filtered_and_sorted_issues: the Vec it returns, the displays it computed
\* before filtering, and the cache it leaves.
BeadUiApp_filtered_and_sorted_issues(g, dm, iss, text, filters, by, ascending, st, fails) ==
    Bind(Precompute(g, dm, iss, st, fails, 1, <<>>, <<>>), LAMBDA p :
    Bind(SelectSeq3(p.displays, text, filters), LAMBDA kept :
       [g |-> p.g, displays |-> p.displays, lookups |-> p.lookups,
        filtered |-> StableSort(kept, Len(kept), by, ascending)]))

ColumnOrder == <<"Id", "Directory", "Title", "Status", "Priority", "Type",
                 "Assignee", "Blockers", "Dependents">>

\* The threshold of the per-value filter menus.
MaxMenuCardinality == 20

RECURSIVE Cardinalities(_, _, _, _, _, _, _)
\* Lines 1013-1021: the cardinality of each column, in that order.
Cardinalities(g, dm, iss, st, fails, k, acc) ==
    IF k > Len(ColumnOrder) THEN [g |-> g, cardinality |-> acc]
    ELSE Bind(BeadUiApp_get_column_cardinality(g, dm, iss, ColumnOrder[k],
                                               st, fails), LAMBDA r :
         Bind(MapInsert(acc, ColumnOrder[k], r.n), LAMBDA cardinality :
            Cardinalities(r.g, dm, iss, st, fails, k + 1, cardinality)))

RECURSIVE HeaderMenusBelowThreshold(_, _, _, _, _, _, _, _)
\* The header menus that need a cardinality below the threshold.
HeaderMenusBelowThreshold(g, dm, iss, st, fails, cardinality, k, acc) ==
    IF k > Len(ColumnOrder) THEN [g |-> g, menu |-> acc]
    ELSE LET skip_filter_menu == ColumnOrder[k] \in {"Id", "Title"}
             offered == /\ ~skip_filter_menu
                        /\ cardinality[ColumnOrder[k]] < MaxMenuCardinality
         IN Bind(IF offered
                 THEN ColumnValues(g, dm, iss, ColumnOrder[k], st, fails, 1, {})
                 ELSE [g |-> g, values |-> {}], LAMBDA r :
            Bind(MapInsert(acc, ColumnOrder[k], r.values), LAMBDA menu :
               HeaderMenusBelowThreshold(r.g, dm, iss, st, fails, cardinality,
                                         k + 1, menu)))

RECURSIVE HeaderMenus(_, _, _, _, _, _, _, _)
\* sortable_header_ui, lines 1501-1519, for each column in turn: the values
\* its filter menu offers.
HeaderMenus(g, dm, iss, st, fails, cardinality, k, acc) ==
    IF k > Len(ColumnOrder) THEN [g |-> g, menu |-> acc]
    ELSE LET skip_filter_menu == ColumnOrder[k] \in {"Id", "Title"}
             offered == /\ ~skip_filter_menu
                        /\ cardinality[ColumnOrder[k]] <= MaxMenuCardinality
         IN Bind(IF offered
                 THEN ColumnValues(g, dm, iss, ColumnOrder[k], st, fails, 1, {})
                 ELSE [g |-> g, values |-> {}], LAMBDA r :
            Bind(MapInsert(acc, ColumnOrder[k], r.values), LAMBDA menu :
               HeaderMenus(r.g, dm, iss, st, fails, cardinality, k + 1, menu)))

\* show_list_table up to the table: the rows, the cardinalities, the header
\* menus, and the cache all of it leaves.
BeadUiApp_show_list_table(cache, dm, iss, text, filters, by, ascending, st, fails) ==
    Bind(BeadUiApp_filtered_and_sorted_issues(G0(cache), dm, iss, text, filters,
                                              by, ascending, st, fails), LAMBDA f :
    Bind(Cardinalities(f.g, dm, iss, st, fails, 1, EmptyMap), LAMBDA c :
    Bind(HeaderMenus(c.g, dm, iss, st, fails, c.cardinality, 1, EmptyMap), LAMBDA h :
       [snapshot_cache |-> h.g.cache, att |-> h.g.att,
        view |-> [filtered |-> f.filtered, displays |-> f.displays,
                  lookups |-> f.lookups, cardinality |-> c.cardinality,
                  menu |-> h.menu,
                  fetched |-> {id \in IssueIds : h.g.att[id] > 0}]])))

---------------------------------------------------------------------------
(* The databases of the model.                                             *)

\* PathA holds a, b, c; PathB holds c and another issue that is also named a.
Store0 ==
    (PathA :> Db(<<"a", "b", "c">>,
                 ("a" :> StoredIssue("T1", "open", 3, None, None, <<>>)) @@
                 ("b" :> StoredIssue("t2", "open", 1, Some("x"), None, <<"a">>)) @@
                 ("c" :> StoredIssue("T1", "closed", 0, None, None, <<>>)))) @@
    (PathB :> Db(<<"c", "a">>,
                 ("c" :> StoredIssue("t2", "open", 1, None, None, <<"a">>)) @@
                 ("a" :> StoredIssue("t2", "closed", 0, None, None, <<>>))))

\* PathA holds a, b (blocked by a) and c (blocked by a and b); PathB holds d.
\* The priorities, in list order, are 3, b_priority, 4, 0.
StoreApp(a_status, c_status, d_status, b_priority) ==
    (PathA :> Db(<<"a", "b", "c">>,
                 ("a" :> StoredIssue("T1", a_status, 3, None, None, <<>>)) @@
                 ("b" :> StoredIssue("t2", "open", b_priority, Some("x"), None,
                                     <<"a">>)) @@
                 ("c" :> StoredIssue("T1", c_status, 4, None, Some("n"),
                                     <<"a", "b">>)))) @@
    (PathB :> Db(<<"d">>,
                 ("d" :> StoredIssue("t2", d_status, 0, Some("y"), None, <<>>))))

\* The same issues with other dependency lists.
StoreGraph(b_deps, c_deps) ==
    (PathA :> Db(<<"a", "b", "c">>,
                 ("a" :> StoredIssue("T1", "open", 3, None, None, <<>>)) @@
                 ("b" :> StoredIssue("t2", "open", 1, Some("x"), None, b_deps)) @@
                 ("c" :> StoredIssue("T1", "open", 4, None, Some("n"), c_deps)))) @@
    (PathB :> Db(<<"d">>,
                 ("d" :> StoredIssue("t2", "closed", 0, Some("y"), None, <<>>))))

\* The registry after Default: both directories, display names computed.
ConfigApp(visibleB) ==
    [directories |-> AppConfig_compute_display_names(
                        <<DirectoryConfig(PathA, TRUE, ""),
                          DirectoryConfig(PathB, visibleB, "")>>),
     sidebar_collapsed |-> FALSE]

\* Default's column_filters: Status excludes "closed".
ColumnFiltersDefault ==
    ("Status" :> ColumnFilter_new_with_excluded(<<"closed">>))

---------------------------------------------------------------------------
(* The probe: what a call-counting stub gateway and an observer of the     *)
(* calls would record.  Counters are per snapshot (reset by clear).        *)

ProbeInit ==
    [gets |-> [i \in IssueIds |-> 0],          \* get_issue calls per id
     fetches |-> [i \in IssueIds |-> 0],       \* runs of bd show per id
     fetched_ok |-> [i \in IssueIds |-> 0],    \* successful runs per id
     last_result |-> [i \in IssueIds |-> "none"],
     memo_before_clear |-> {},                 \* ids memoized when last cleared
     cleared |-> FALSE,
     op |-> "init", id |-> "", fetched |-> FALSE, ok |-> TRUE,
     col |-> "", same_column |-> FALSE, prev_ascending |-> TRUE,
     detailed |-> {},                          \* ids refresh got the detail of
     shown |-> FALSE,                          \* a frame is up, awaiting an event
     edits |-> 0, saves |-> 0,                 \* edits and saves made so far
     saved_id |-> "",                          \* the id save_issue_changes ran for
     calls |-> <<>>,                           \* its update calls and their results
     load_id |-> "", load_fetched |-> FALSE,   \* the detail load of the frame
     load_ok |-> TRUE,                         \* and whether its lookup succeeded
     after_save |-> FALSE,                     \* the frame follows a clean save
     after_detail_refresh |-> FALSE,           \* or the detail view's Refresh
     down_dirs |-> {},                         \* directories whose bd list failed
     refetched |-> {},                         \* ids refresh fetched the detail of
     dropped |-> {},                           \* edges the refresh left out
     hints |-> [i \in IssueIds |-> None]]      \* last path registered per id

\* What the probe holds after an event of the frame shown has been handled.
Event(p, op) ==
    [p EXCEPT !.op = op, !.shown = FALSE, !.saved_id = "", !.calls = <<>>,
              !.load_id = "", !.load_fetched = FALSE, !.load_ok = TRUE,
              !.after_save = FALSE, !.after_detail_refresh = FALSE]

\* Before the first frame nothing has been shown.
ViewInit ==
    [filtered |-> <<>>, displays |-> <<>>, lookups |-> <<>>,
     cardinality |-> [c \in SortColumn |-> 0], menu |-> [c \in SortColumn |-> {}],
     fetched |-> {}]

AppInitState ==
    /\ config = [directories |-> <<>>, sidebar_collapsed |-> FALSE]
    /\ issues = <<>>
    /\ selected_index = None
    /\ filter_text = ""
    /\ error_message = None
    /\ sort_by = "Priority"
    /\ sort_ascending = TRUE
    /\ current_issue = None
    /\ edit_modified = FALSE
    /\ column_filters = EmptyMap
    /\ dependents_map = EmptyMap
    /\ view = ViewInit

---------------------------------------------------------------------------
(* SpecCache: a SnapshotCache driven directly, over a call-counting stub.  *)

InitCache ==
    /\ store = Store0
    /\ AppInitState
    /\ snapshot_cache = SnapshotCache_new
    /\ probe = ProbeInit

CacheClear ==
    /\ snapshot_cache' = SnapshotCache_clear(snapshot_cache)
    /\ probe' = [ProbeInit EXCEPT
                    !.memo_before_clear = DOMAIN snapshot_cache.get_issue_cache,
                    !.cleared = TRUE, !.op = "clear"]
    /\ UNCHANGED <<store, appVars>>

CacheRegister(id, path) ==
    /\ snapshot_cache' =
          SnapshotCache_register_issue_source(snapshot_cache, id, "", Some(path))
    /\ probe' = [probe EXCEPT !.op = "register", !.id = id,
                              !.fetched = FALSE, !.ok = TRUE,
                              !.hints[id] = Some(path)]
    /\ UNCHANGED <<store, appVars>>

CacheGetIssue(id, down) ==
    /\ probe.gets[id] < MaxGets
    /\ LET r == SnapshotCache_get_issue(snapshot_cache, id, store, down) IN
       /\ snapshot_cache' = r.cache
       /\ probe' = [probe EXCEPT
             !.gets[id] = @ + 1,
             !.fetches[id] = IF r.fetched THEN @ + 1 ELSE @,
             !.fetched_ok[id] = IF r.fetched /\ r.result.ok THEN @ + 1 ELSE @,
             !.last_result[id] = IF r.result.ok THEN "ok" ELSE "err",
             !.op = "get_issue", !.id = id,
             !.fetched = r.fetched, !.ok = r.result.ok]
    /\ UNCHANGED <<store, appVars>>

\* The ids the harness looks up: one that both databases hold, one that only
\* the working directory's holds.
HarnessIds == {"a", "b"}

NextCache ==
    \/ CacheClear
    \/ \E id \in HarnessIds, path \in DirPaths : CacheRegister(id, path)
    \/ \E id \in HarnessIds, down \in BOOLEAN : CacheGetIssue(id, down)

SpecCache == InitCache /\ [][NextCache]_vars

---------------------------------------------------------------------------
(* C1..C3: the snapshot cache's contract.                                  *)

\* C1 (as stated): between two clears every id is fetched from the gateway
\* at most once, so two successive get_issue(id) make at most one fetch.
C1_AtMostOneFetch ==
    \A id \in IssueIds : probe.fetches[id] <= 1

\* C1 (amended): between two clears every id is fetched successfully at most
\* once, every fetch but the last one of an id has failed, and an id whose
\* lookup has succeeded is memoized, so that no later lookup fetches it.
C1_AtMostOneSuccessfulFetch ==
    \A id \in IssueIds :
        /\ probe.fetched_ok[id] <= 1
        /\ probe.fetches[id] <= probe.gets[id]
        /\ probe.fetched_ok[id] = 1 <=> id \in DOMAIN snapshot_cache.get_issue_cache
        /\ (probe.op = "get_issue" /\ probe.id = id /\ probe.fetched)
              => probe.fetches[id] = probe.gets[id]

\* C1 witness: an id looked up twice in one snapshot, fetched once.
C1_Witness ==
    \E id \in IssueIds :
        /\ probe.gets[id] >= 2
        /\ probe.fetches[id] = 1
        /\ probe.fetched_ok[id] = 1
        /\ probe.op = "get_issue" /\ probe.id = id /\ ~probe.fetched

\* C2: the first get_issue(id) after a clear runs exactly one fetch, also
\* for an id that was memoized when the cache was cleared.
C2_FetchAfterClear ==
    \A id \in IssueIds :
        (probe.cleared /\ probe.gets[id] = 1) => probe.fetches[id] = 1

\* C2 witness: an id that was memoized before the clear has been looked up
\* once after it.
C2_Witness ==
    \E id \in probe.memo_before_clear :
        /\ probe.cleared /\ probe.gets[id] = 1 /\ probe.fetches[id] = 1
        /\ probe.op = "get_issue" /\ probe.id = id

\* C3: a get_issue whose fetch fails returns the error and leaves the cache
\* as it was, and the next get_issue of that id in the snapshot fetches anew.
C3_FailureNotMemoized ==
    [][\A id \in IssueIds :
          (probe'.gets[id] = probe.gets[id] + 1) =>
             /\ ~probe'.ok => /\ snapshot_cache' = snapshot_cache
                              /\ probe'.fetched
                              /\ id \notin DOMAIN snapshot_cache'.get_issue_cache
             /\ probe.last_result[id] = "err" =>
                   /\ probe'.fetched
                   /\ probe'.fetches[id] = probe.fetches[id] + 1]_vars

\* C3 witness: a lookup that failed, followed by a lookup that fetched again.
C3_Witness ==
    \E id \in IssueIds :
        /\ probe.op = "get_issue" /\ probe.id = id
        /\ probe.gets[id] = 2 /\ probe.fetches[id] = 2
        /\ probe.fetched_ok[id] = 1 /\ probe.ok

---------------------------------------------------------------------------
(* SpecRefresh: refreshes over databases that differ in their dependency   *)
(* lists, with bd show and bd list failing or not.                         *)

GraphStores ==
    {StoreGraph(b_deps, c_deps) :
        b_deps \in {<<>>, <<"a">>},
        c_deps \in {<<>>, <<"a">>, <<"a", "b">>, <<"b", "a">>}}

\* In a refresh every id is looked up once: its run of bd show fails or not.
RefreshFails == {f \in FailChoices : \A id \in IssueIds : f[id] \in {0, MaxFail}}

\* The directories whose bd list can fail.
RefreshDown == {{}, {1}}

\* The edges of a dependents map, as pairs <<blocker, dependent>>.
Edges(m) == UNION {{<<A, m[A][k]>> : k \in 1..Len(m[A])} : A \in DOMAIN m}

\* The ids a refresh has the detail of from a run of bd show of its own.
Refetched(r) == {id \in DOMAIN r.snapshot_cache.get_issue_cache : r.att[id] > 0}

\* refresh() under the registry cfg, as the handlers call it.
DoRefresh(cfg, fails, downDirs) ==
    LET r == BeadUiApp_refresh(store, cfg, snapshot_cache, fails, downDirs) IN
    /\ issues' = r.issues
    /\ snapshot_cache' = r.snapshot_cache
    /\ dependents_map' = r.dependents_map
    /\ error_message' = r.error_message
    /\ probe' = [Event(probe, "refresh") EXCEPT
                    !.detailed = DOMAIN r.snapshot_cache.get_issue_cache,
                    !.refetched = Refetched(r),
                    !.dropped = Edges(dependents_map) \ Edges(r.dependents_map),
                    !.down_dirs = downDirs]

InitRefresh ==
    /\ store \in GraphStores
    /\ config = ConfigApp(TRUE)
    /\ \E fails \in RefreshFails :
          LET r == BeadUiApp_refresh(store, config, SnapshotCache_new, fails, {}) IN
          /\ issues = r.issues
          /\ snapshot_cache = r.snapshot_cache
          /\ dependents_map = r.dependents_map
          /\ error_message = r.error_message
          /\ probe = [ProbeInit EXCEPT
                         !.detailed = DOMAIN r.snapshot_cache.get_issue_cache,
                         !.refetched = Refetched(r)]
    /\ selected_index = None
    /\ filter_text = ""
    /\ sort_by = "Priority"
    /\ sort_ascending = TRUE
    /\ current_issue = None
    /\ edit_modified = FALSE
    /\ column_filters = ColumnFiltersDefault
    /\ view = ViewInit

refreshFrame == <<store, selected_index, filter_text, sort_by, sort_ascending,
                  current_issue, edit_modified, column_filters, view>>

\* Lines 842-844: the Refresh button.
RefreshClick(fails, downDirs) ==
    /\ DoRefresh(config, fails, downDirs)
    /\ UNCHANGED <<config, refreshFrame>>

\* Lines 794-800 and 826-830: a directory's checkbox, then save and refresh.
ToggleVisible(k, fails, downDirs) ==
    /\ k \in 1..Len(config.directories)
    /\ config' = [config EXCEPT !.directories[k].visible = ~@]
    /\ DoRefresh(config', fails, downDirs)
    /\ UNCHANGED refreshFrame

NextRefresh ==
    \/ \E fails \in RefreshFails, downDirs \in RefreshDown :
          RefreshClick(fails, downDirs)
    \/ \E fails \in RefreshFails, downDirs \in RefreshDown :
          ToggleVisible(2, fails, downDirs)

SpecRefresh == InitRefresh /\ [][NextRefresh]_vars

\* The ids of the aggregated issue set.
IssueSet == {issues[k].id : k \in 1..Len(issues)}

\* The dependency list the databases hold for an id, as a set of ids.
StoredDependencies(id) ==
    UNION {IF id \in DOMAIN store[p].rec
           THEN {store[p].rec[id].deps[k] : k \in 1..Len(store[p].rec[id].deps)}
           ELSE {} : p \in DOMAIN store}

\* The ids dependents_map lists for an id.
Dependents(id) ==
    IF id \in DOMAIN dependents_map
    THEN {dependents_map[id][k] : k \in 1..Len(dependents_map[id])}
    ELSE {}

---------------------------------------------------------------------------
(* C22: clear() and the location hint of a cache miss.                     *)

\* C22: clear() leaves no memoized issue and no source registration; a
\* get_issue(id) that misses the cache and succeeds returns what bd show
\* returns under the path registered last for the id since the last clear(),
\* and under no path when the id has had no registration since.
C22_MissFetchesWithLastHint ==
    /\ probe.op = "clear" =>
          /\ DOMAIN snapshot_cache.get_issue_cache = {}
          /\ DOMAIN snapshot_cache.issue_sources = {}
    /\ (probe.op = "get_issue" /\ probe.fetched /\ probe.ok) =>
          /\ BdClient_get_issue_uncached(store, probe.id,
                                         probe.hints[probe.id], FALSE).ok
          /\ snapshot_cache.get_issue_cache[probe.id] =
                BdClient_get_issue_uncached(store, probe.id,
                                            probe.hints[probe.id], FALSE).val

\* C22 witness: after a clear(), a is registered under the second database
\* and a miss fetches that database's issue a, which is closed.
C22_Witness ==
    /\ probe.cleared
    /\ probe.op = "get_issue" /\ probe.id = "a" /\ probe.fetched /\ probe.ok
    /\ probe.hints["a"] = Some(PathB)
    /\ snapshot_cache.get_issue_cache["a"].status = "closed"

---------------------------------------------------------------------------
(* C21: a failed detail fetch in compute_dependents_map.                   *)

\* The blockers the dependents map lists an issue under.
C21_BlockersOf(B) == {e[1] : e \in {x \in Edges(dependents_map) : x[2] = B}}

\* C21: after a refresh an issue whose detail could not be fetched stands
\* under no blocker in the dependents map, and every issue whose detail was
\* fetched stands under each of its dependencies, whichever other fetches
\* failed.
C21_FailedFetchContributesNoEdge ==
    probe.op = "refresh" =>
       \A B \in IssueSet :
          C21_BlockersOf(B) =
             IF B \in probe.refetched THEN StoredDependencies(B) ELSE {}

\* C21 witness: b's detail could not be fetched and c's was; c stands under
\* a and b, and b, which depends on a, stands under nothing.
C21_Witness ==
    /\ probe.op = "refresh"
    /\ {"a", "b", "c"} \subseteq IssueSet
    /\ "b" \notin probe.refetched /\ "c" \in probe.refetched
    /\ "a" \in StoredDependencies("b")
    /\ C21_BlockersOf("b") = {}
    /\ C21_BlockersOf("c") = {"a", "b"}

---------------------------------------------------------------------------
(* C16: what a refresh leaves comes from that refresh alone.               *)

\* C16: after a refresh the cache holds the details this refresh fetched
\* and no other (it was cleared first), the sources registered are those of
\* the issues now listed (they were listed next), and every edge of the
\* dependents map joins two listed issues and is in the detail this refresh
\* fetched of the dependent (the map was computed last, from empty): no
\* entry of the previous snapshot survives.
C16_RefreshFromScratch ==
    probe.op = "refresh" =>
       /\ DOMAIN snapshot_cache.get_issue_cache = probe.refetched
       /\ DOMAIN snapshot_cache.issue_sources = IssueSet
       /\ \A e \in Edges(dependents_map) :
             /\ e[1] \in IssueSet /\ e[2] \in IssueSet
             /\ e[2] \in probe.refetched
             /\ \E k \in 1..Len(snapshot_cache.get_issue_cache[e[2]].dependencies) :
                   snapshot_cache.get_issue_cache[e[2]].dependencies[k].id = e[1]
       /\ \A e \in probe.dropped : e \notin Edges(dependents_map)

\* C16 witness: a refresh that could not fetch c's detail, after a snapshot
\* in which c depended on a: the edge is gone, the edge of b is still there.
C16_Witness ==
    /\ probe.op = "refresh"
    /\ <<"a", "c">> \in probe.dropped
    /\ "c" \in IssueSet /\ "c" \notin probe.refetched
    /\ "a" \in StoredDependencies("c")
    /\ <<"a", "b">> \in Edges(dependents_map)

---------------------------------------------------------------------------
(* The query engine seen frame by frame.  An action applies one event and  *)
(* then shows the list table of the next frame, so view is always what the *)
(* user sees when the next event comes.                                    *)

\* The ids whose bd show can fail in the query specifications.
FlakyIds == {"c"}

\* Runs of bd show matter only for ids that are not memoized.
FailChoicesFor(cache) ==
    {f \in FailChoices :
        \A id \in IssueIds :
           (id \in DOMAIN cache.get_issue_cache \/ id \notin FlakyIds) => f[id] = 0}

\* Init of the query specifications: the application as Default leaves it
\* over one of the databases given, the first refresh done.
InitQuery(stores) ==
    /\ store \in stores
    /\ config = ConfigApp(TRUE)
    /\ \E fails \in {f \in FailChoicesFor(SnapshotCache_new) :
                        \A id \in IssueIds : f[id] \in {0, MaxFail}} :
          LET r == BeadUiApp_refresh(store, config, SnapshotCache_new, fails, {}) IN
          /\ issues = r.issues
          /\ snapshot_cache = r.snapshot_cache
          /\ dependents_map = r.dependents_map
          /\ error_message = r.error_message
    /\ selected_index = None
    /\ filter_text = ""
    /\ sort_by = "Priority"
    /\ sort_ascending = TRUE
    /\ current_issue = None
    /\ edit_modified = FALSE
    /\ column_filters = ColumnFiltersDefault
    /\ view = ViewInit
    /\ probe = ProbeInit

\* The list table of the next frame, under the filters and the sort given.
ShowNext(filters, by, ascending, fails) ==
    LET r == BeadUiApp_show_list_table(snapshot_cache, dependents_map, issues,
                                       filter_text, filters, by, ascending,
                                       store, fails)
    IN /\ snapshot_cache' = r.snapshot_cache
       /\ view' = r.view

queryFrame == <<store, config, issues, selected_index, filter_text,
                error_message, current_issue, edit_modified, dependents_map>>

\* A frame without an event.
Render(fails) ==
    /\ ShowNext(column_filters, sort_by, sort_ascending, fails)
    /\ probe' = [probe EXCEPT !.op = "render", !.col = ""]
    /\ UNCHANGED <<queryFrame, sort_by, sort_ascending, column_filters>>

\* The sort click that always sorts ascending.
ApplySortAlwaysAscending(by, ascending, sort_col) ==
    [sort_by |-> sort_col, sort_ascending |-> TRUE]

\* Lines 953-960: a click on a column header.
ApplySort(by, ascending, sort_col) ==
    IF by = sort_col
    THEN [sort_by |-> by, sort_ascending |-> ~ascending]
    ELSE [sort_by |-> sort_col, sort_ascending |-> TRUE]

ClickSort(sort_col, fails) ==
    LET n == ApplySort(sort_by, sort_ascending, sort_col) IN
    /\ sort_by' = n.sort_by
    /\ sort_ascending' = n.sort_ascending
    /\ ShowNext(column_filters, n.sort_by, n.sort_ascending, fails)
    /\ probe' = [probe EXCEPT !.op = "sort", !.col = sort_col,
                              !.same_column = (sort_col = sort_by),
                              !.prev_ascending = sort_ascending]
    /\ UNCHANGED <<queryFrame, column_filters>>

\* Lines 973-978: column_filters.entry(column).or_insert_with(new).toggle_exclude
ApplyFilterToggle(filters, column, value) ==
    MapInsert(filters, column,
              ColumnFilter_toggle_exclude(
                 IF column \in DOMAIN filters THEN filters[column]
                 ELSE ColumnFilter_new, value))

\* What the menus of the frame shown offer to toggle for a column: the
\* entries of the header menu, an excluded value through "Clear all filters",
\* and the value of a cell of the column.
Offered(column) ==
    IF view.cardinality[column] > MaxMenuCardinality THEN {}
    ELSE (IF column \in {"Id", "Title"} THEN {}
          ELSE view.menu[column] \cup
               (IF column \in DOMAIN column_filters THEN column_filters[column] ELSE {}))
         \cup
         (IF column \in {"Directory", "Status", "Priority", "Type", "Assignee"}
          THEN {ProjectColumn(view.filtered[k].issue, column,
                              view.filtered[k].readiness,
                              view.filtered[k].blockers_count,
                              view.filtered[k].dependents_count) :
                   k \in 1..Len(view.filtered)}
          ELSE {})

FilterToggle(column, value, fails) ==
    /\ value \in Offered(column)
    /\ LET n == ApplyFilterToggle(column_filters, column, value) IN
       /\ column_filters' = n
       /\ ShowNext(n, sort_by, sort_ascending, fails)
    /\ probe' = [probe EXCEPT !.op = "toggle", !.col = ""]
    /\ UNCHANGED <<queryFrame, sort_by, sort_ascending>>

\* Lines 1549-1558 and 973-978: "Clear all filters" in the header menu of a
\* column, offered while the column excludes a value: the value the iteration
\* of the HashSet of excluded values yields first is toggled.
ClearAllFilters(column, fails) ==
    /\ column \notin {"Id", "Title"}
    /\ view.cardinality[column] <= MaxMenuCardinality
    /\ column \in DOMAIN column_filters
    /\ ColumnFilter_has_active_filters(column_filters[column])
    /\ \E excluded_value \in column_filters[column] :
          LET n == ApplyFilterToggle(column_filters, column, excluded_value) IN
          /\ column_filters' = n
          /\ ShowNext(n, sort_by, sort_ascending, fails)
    /\ probe' = [probe EXCEPT !.op = "clear_all", !.col = column]
    /\ UNCHANGED <<queryFrame, sort_by, sort_ascending>>

---------------------------------------------------------------------------
(* SpecSort: clicks on the column headers.  Either all four issues are     *)
(* open, with priorities 3, 1, 4, 0, or a is closed and hidden and the     *)
(* priorities of the others are 10, 4, 0.                                  *)

SortStores ==
    {StoreApp("open", "open", "open", 1), StoreApp("closed", "open", "open", 10)}

InitSort == InitQuery(SortStores)

NextSort ==
    \/ \E fails \in FailChoicesFor(snapshot_cache) : Render(fails)
    \/ \E sort_col \in SortColumn, fails \in FailChoicesFor(snapshot_cache) :
          ClickSort(sort_col, fails)

SpecSort == InitSort /\ [][NextSort]_vars

---------------------------------------------------------------------------
(* SpecFilter: the column filters, sorted by priority.                     *)

FilterStores ==
    {StoreApp("closed", "in_progress", "closed", 1),
     StoreApp("deferred", "open", "closed", 1),
     StoreApp("deferred", "closed", "in_progress", 1)}

InitFilter == InitQuery(FilterStores)

\* The columns whose menus the runs use, and the values they toggle there.
FilterColumns == {"Status", "Priority", "Assignee"}

FilterValues == {"closed", "blocked", "ready", "P3", "-"}

NextFilter ==
    \/ \E fails \in FailChoicesFor(snapshot_cache) : Render(fails)
    \/ \E column \in FilterColumns, fails \in FailChoicesFor(snapshot_cache) :
          \E value \in Offered(column) \cap FilterValues :
             FilterToggle(column, value, fails)
    \/ \E column \in FilterColumns, fails \in FailChoicesFor(snapshot_cache) :
          ClearAllFilters(column, fails)

SpecFilter == InitFilter /\ [][NextFilter]_vars

---------------------------------------------------------------------------
(* Claims about the query engine.                                          *)

\* What the databases hold about an issue: whether one of its dependencies
\* has a status other than closed.
HasOpenBlocker(id) ==
    \E p \in DOMAIN store :
        /\ id \in DOMAIN store[p].rec
        /\ \E k \in 1..Len(store[p].rec[id].deps) :
              store[p].rec[store[p].rec[id].deps[k]].status # "closed"

\* C5 as stated: the readiness shown for an issue is closed or in_progress
\* for those statuses, and otherwise blocked exactly when one of its
\* dependencies is not closed, ready when all are closed or there are none.
C5_ReadinessAsStated ==
    \A k \in 1..Len(view.displays) :
        LET d == view.displays[k] IN
        CASE d.issue.status = "closed" -> d.readiness = "closed"
          [] d.issue.status = "in_progress" -> d.readiness = "in_progress"
          [] OTHER -> d.readiness =
                         IF HasOpenBlocker(d.issue.id) THEN "blocked" ELSE "ready"

\* C5 amended: the same, except that an issue of any other status whose
\* detail lookup fails is shown ready whatever its dependencies are.
C5_ReadinessUnlessLookupFails ==
    \A k \in 1..Len(view.displays) :
        LET d == view.displays[k] IN
        CASE d.issue.status = "closed" -> d.readiness = "closed"
          [] d.issue.status = "in_progress" -> d.readiness = "in_progress"
          [] OTHER ->
                /\ view.lookups[k].called
                /\ d.readiness =
                      IF view.lookups[k].fetch_ok /\ HasOpenBlocker(d.issue.id)
                      THEN "blocked" ELSE "ready"

\* C5 witness: one frame shows a closed issue that has an open blocker, an
\* issue in progress, an issue blocked by an open one, and an issue that is
\* ready after a lookup that succeeded.
C5_Witness ==
    /\ \E k \in 1..Len(view.displays) :
          view.displays[k].readiness = "in_progress"
    /\ \E k \in 1..Len(view.displays) :
          /\ view.displays[k].readiness = "closed"
          /\ HasOpenBlocker(view.displays[k].issue.id)
    /\ \E k \in 1..Len(view.displays) :
          /\ view.displays[k].readiness = "blocked"
          /\ view.lookups[k].fetch_ok
    /\ \E k \in 1..Len(view.displays) :
          /\ view.displays[k].readiness = "ready"
          /\ view.lookups[k].called /\ view.lookups[k].fetch_ok
          /\ ~HasOpenBlocker(view.displays[k].issue.id)

\* C27: for an issue that is neither closed nor in progress, a failed
\* lookup in get_readiness gives "ready" and a failed lookup in
\* get_blockers_count gives 0, whatever blockers the databases hold for it,
\* and error_message does not tell of the failure.
C27_FailedLookupReadsAsUnblocked ==
    \A k \in 1..Len(view.displays) :
        LET d == view.displays[k] IN
        d.issue.status \notin {"closed", "in_progress"} =>
           /\ ~view.lookups[k].fetch_ok =>
                 /\ view.lookups[k].called
                 /\ d.readiness = "ready"
                 /\ error_message = None
           /\ ~view.lookups[k].count_ok =>
                 /\ d.blockers_count = 0
                 /\ error_message = None

\* C27 witness: both lookups of an issue with an open blocker have failed;
\* it is shown ready with no blocker, and no message is set.
C27_Witness ==
    \E k \in 1..Len(view.displays) :
        /\ view.displays[k].issue.status \notin {"closed", "in_progress"}
        /\ HasOpenBlocker(view.displays[k].issue.id)
        /\ ~view.lookups[k].fetch_ok /\ ~view.lookups[k].count_ok
        /\ view.displays[k].readiness = "ready"
        /\ view.displays[k].blockers_count = 0
        /\ error_message = None

\* The display value C6 names for a column of a pre-computed row.
C6_DisplayValue(d, column) ==
    CASE column = "Status" -> d.readiness
      [] column = "Priority" -> "P" \o ToString(d.issue.priority)
      [] column = "Assignee" ->
            IF d.issue.assignee.some THEN d.issue.assignee.v ELSE "-"

\* C6: with no text filter, a row is in the table iff for every column that
\* has an exclusion set its display value is not in that set; the table has
\* each such row once.
C6_ConjunctiveExclusion ==
    (filter_text = "" /\ DOMAIN column_filters \subseteq FilterColumns) =>
       /\ \A k \in 1..Len(view.displays) :
             (\E j \in 1..Len(view.filtered) :
                 view.filtered[j] = view.displays[k])
             <=> (probe.op # "init" /\
                  \A column \in DOMAIN column_filters :
                     C6_DisplayValue(view.displays[k], column)
                        \notin column_filters[column])
       /\ \A i, j \in 1..Len(view.filtered) :
             view.filtered[i] = view.filtered[j] => i = j
       /\ \A j \in 1..Len(view.filtered) :
             \E k \in 1..Len(view.displays) : view.filtered[j] = view.displays[k]

\* C6 witness: Status excludes closed and Priority excludes P3; a row that
\* only Priority excludes and a row that only Status excludes are both
\* gone, and a row with no assignee ("-") is shown.
C6_Witness ==
    /\ "Status" \in DOMAIN column_filters /\ "Priority" \in DOMAIN column_filters
    /\ column_filters["Status"] = {"closed"}
    /\ column_filters["Priority"] = {"P3"}
    /\ \E k \in 1..Len(view.displays) :
          /\ view.displays[k].readiness = "ready"
          /\ view.displays[k].issue.priority = 3
          /\ \A j \in 1..Len(view.filtered) : view.filtered[j] # view.displays[k]
    /\ \E k \in 1..Len(view.displays) :
          /\ view.displays[k].readiness = "closed"
          /\ view.displays[k].issue.priority # 3
          /\ \A j \in 1..Len(view.filtered) : view.filtered[j] # view.displays[k]
    /\ \E j \in 1..Len(view.filtered) : ~view.filtered[j].issue.assignee.some

\* Lexical order of two strings: s is a prefix of t, or s has the smaller
\* character where they first differ.
C7_LexLeq(s, t) ==
    LET cs == Chars(s)
        ct == Chars(t)
    IN \/ /\ Len(cs) <= Len(ct)
          /\ \A i \in 1..Len(cs) : cs[i] = ct[i]
       \/ \E i \in 1..Len(cs) :
             /\ i <= Len(ct)
             /\ \A j \in 1..(i - 1) : cs[j] = ct[j]
             /\ CharCode(cs[i]) < CharCode(ct[i])

\* Row a does not come after row b in the natural order of the column.
C7_Leq(a, b, column) ==
    CASE column = "Priority" -> a.issue.priority <= b.issue.priority
      [] column = "Blockers" -> a.blockers_count <= b.blockers_count
      [] column = "Dependents" -> a.dependents_count <= b.dependents_count
      [] column = "Id" -> C7_LexLeq(a.issue.id, b.issue.id)
      [] column = "Directory" ->
            C7_LexLeq(a.issue.source_directory, b.issue.source_directory)
      [] column = "Title" -> C7_LexLeq(a.issue.title, b.issue.title)
      [] column = "Status" -> C7_LexLeq(a.readiness, b.readiness)
      [] column = "Type" -> C7_LexLeq(a.issue.issue_type, b.issue.issue_type)
      [] column = "Assignee" ->
            C7_LexLeq(IF a.issue.assignee.some THEN a.issue.assignee.v ELSE "",
                      IF b.issue.assignee.some THEN b.issue.assignee.v ELSE "")

\* C7: the table is ordered by the sort column, numerically for Priority,
\* Blockers and Dependents and lexically for the string columns, ascending
\* or descending as sort_ascending says; priorities 3, 1, 4, 0 come out as
\* 0, 1, 3, 4 ascending and 4, 3, 1, 0 descending.
C7_SortedByColumn ==
    /\ \A i, j \in 1..Len(view.filtered) :
          i < j => IF sort_ascending
                   THEN C7_Leq(view.filtered[i], view.filtered[j], sort_by)
                   ELSE C7_Leq(view.filtered[j], view.filtered[i], sort_by)
    /\ {view.filtered[j] : j \in 1..Len(view.filtered)} =
          {view.displays[k] : k \in {i \in 1..Len(view.displays) :
                                        view.displays[i].readiness # "closed"}}
    /\ \A i, j \in 1..Len(view.filtered) :
          view.filtered[i] = view.filtered[j] => i = j
    /\ ( /\ sort_by = "Priority"
         /\ Len(view.filtered) = 4
         /\ [k \in 1..4 |-> view.displays[k].issue.priority] = <<3, 1, 4, 0>> )
       => [k \in 1..4 |-> view.filtered[k].issue.priority] =
             IF sort_ascending THEN <<0, 1, 3, 4>> ELSE <<4, 3, 1, 0>>

\* C7 witness: the issues with priorities 3, 1, 4, 0 shown sorted by
\* Priority descending, as 4, 3, 1, 0.
C7_Witness ==
    /\ sort_by = "Priority" /\ ~sort_ascending
    /\ Len(view.filtered) = 4
    /\ [k \in 1..4 |-> view.displays[k].issue.priority] = <<3, 1, 4, 0>>
    /\ [k \in 1..4 |-> view.filtered[k].issue.priority] = <<4, 3, 1, 0>>

\* The value an issue is sorted by under a column.
C20_Key(d, by) ==
    CASE by = "Id" -> d.issue.id
      [] by = "Directory" -> d.issue.source_directory
      [] by = "Title" -> d.issue.title
      [] by = "Status" -> d.readiness
      [] by = "Priority" -> d.issue.priority
      [] by = "Type" -> d.issue.issue_type
      [] by = "Assignee" -> IF d.issue.assignee.some THEN d.issue.assignee.v ELSE ""
      [] by = "Blockers" -> d.blockers_count
      [] by = "Dependents" -> d.dependents_count

\* C20: rows that are equal on the sort column stand in the order their
\* issues have in the issue list, whether the sort ascends or descends.
C20_TiesKeepInputOrder ==
    \A i, j \in 1..Len(view.filtered) :
       (i < j /\ C20_Key(view.filtered[i], sort_by) = C20_Key(view.filtered[j], sort_by))
          => view.filtered[i].original_idx < view.filtered[j].original_idx

\* C20 witness: sorted by Title descending, the two issues titled "t2" come
\* first and the two titled "T1" last, each pair in list order.
C20_Witness ==
    /\ sort_by = "Title" /\ ~sort_ascending
    /\ [k \in 1..Len(view.filtered) |-> view.filtered[k].issue.id]
          = <<"b", "d", "a", "c">>
    /\ [k \in 1..Len(view.filtered) |-> view.filtered[k].issue.title]
          = <<"t2", "t2", "T1", "T1">>
    /\ [k \in 1..Len(view.filtered) |-> view.filtered[k].original_idx]
          = <<1, 3, 0, 2>>

\* C8: a click on the active sort column flips sort_ascending and keeps
\* sort_by; a click on another column makes it sort_by, ascending.
C8_SortClick ==
    [][probe'.op = "sort" =>
          IF probe'.col = sort_by
          THEN sort_by' = sort_by /\ sort_ascending' = ~sort_ascending
          ELSE sort_by' = probe'.col /\ sort_ascending' = TRUE]_vars

\* C8 witness: a click on another column while the sort was descending.
C8_Witness ==
    /\ probe.op = "sort"
    /\ ~probe.same_column /\ ~probe.prev_ascending
    /\ sort_by = probe.col /\ sort_ascending

---------------------------------------------------------------------------
(* The edit/save pipeline: BdClient::update_issue, save_issue_changes and  *)
(* the detail view.                                                        *)

\* How many update calls of one save may fail.
MaxFailingFields == 2

\* The fields save_issue_changes updates, in its order.
\* The calls made from the last field to the first.
UpdateFieldsReversed == <<"notes", "assignee", "priority", "status", "title">>

UpdateFields == <<"title", "status", "priority", "assignee", "notes">>

\* What bd reads back from the text i32::to_string wrote.
ParsePriority(text) == CHOOSE n \in 0..9 : ToString(n) = text

\* bd update <id> --<field> <value> on a stored record.
WriteField(rec, field, value) ==
    CASE field = "title" -> [rec EXCEPT !.title = value]
      [] field = "status" -> [rec EXCEPT !.status = value]
      [] field = "priority" -> [rec EXCEPT !.priority = ParsePriority(value)]
      [] field = "assignee" -> [rec EXCEPT !.assignee = Some(value)]
      [] field = "notes" -> [rec EXCEPT !.notes = Some(value)]

\* update_issue runs bd without --db: on the working directory's database.
\* detail is "ok" or what this run of bd fails with.
BdClient_update_issue(st, id, field, value, detail) ==
    IF detail # "ok" THEN [store |-> st, result |-> Err(detail)]
    ELSE IF id \notin DOMAIN st[CwdPath].rec
    THEN [store |-> st, result |-> Err("not found")]
    ELSE [store |-> [st EXCEPT ![CwdPath].rec[id] = WriteField(@, field, value)],
          result |-> Ok(TRUE)]

\* The values with a cleared assignee or notes passed as the empty text.
FieldArgEmptyWhenAbsent(issue, field) ==
    CASE field = "title" -> Some(issue.title)
      [] field = "status" -> Some(issue.status)
      [] field = "priority" -> Some(ToString(issue.priority))
      [] field = "assignee" -> Some(IF issue.assignee.some THEN issue.assignee.v ELSE "")
      [] field = "notes" -> Some(IF issue.notes.some THEN issue.notes.v ELSE "")

\* The value save_issue_changes passes for a field; None: no call is made.
FieldArg(issue, field) ==
    CASE field = "title" -> Some(issue.title)
      [] field = "status" -> Some(issue.status)
      [] field = "priority" -> Some(ToString(issue.priority))
      [] field = "assignee" -> issue.assignee
      [] field = "notes" -> issue.notes

RECURSIVE UpdateLoopAbortOnFailure(_, _, _, _, _, _)
\* The update calls with a return at the first one that fails.
UpdateLoopAbortOnFailure(st, issue, outcome, k, errors, calls) ==
    IF k > Len(UpdateFields) \/ Len(errors) > 0
    THEN [store |-> st, errors |-> errors, calls |-> calls]
    ELSE IF ~FieldArg(issue, UpdateFields[k]).some
    THEN UpdateLoopAbortOnFailure(st, issue, outcome, k + 1, errors, calls)
    ELSE Bind(BdClient_update_issue(st, issue.id, UpdateFields[k],
                                    FieldArg(issue, UpdateFields[k]).v,
                                    outcome[UpdateFields[k]]), LAMBDA r :
         Bind(IF r.result.ok THEN errors
              ELSE Append(errors, UpdateFields[k] \o ": " \o r.result.err),
              LAMBDA errs :
         Bind(Append(calls, [field |-> UpdateFields[k],
                             value |-> FieldArg(issue, UpdateFields[k]).v,
                             result |-> r.result]),
              LAMBDA log :
            UpdateLoopAbortOnFailure(r.store, issue, outcome, k + 1, errs, log))))

RECURSIVE UpdateLoop(_, _, _, _, _, _)
\* Lines 1772-1801 from field k on: the database the calls leave, the errors
\* pushed, and the calls made with their results.
UpdateLoop(st, issue, outcome, k, errors, calls) ==
    IF k > Len(UpdateFields) THEN [store |-> st, errors |-> errors, calls |-> calls]
    ELSE IF ~FieldArg(issue, UpdateFields[k]).some
    THEN UpdateLoop(st, issue, outcome, k + 1, errors, calls)
    ELSE Bind(BdClient_update_issue(st, issue.id, UpdateFields[k],
                                    FieldArg(issue, UpdateFields[k]).v,
                                    outcome[UpdateFields[k]]), LAMBDA r :
         Bind(IF r.result.ok THEN errors
              ELSE Append(errors, UpdateFields[k] \o ": " \o r.result.err),
              LAMBDA errs :
         Bind(Append(calls, [field |-> UpdateFields[k],
                             value |-> FieldArg(issue, UpdateFields[k]).v,
                             result |-> r.result]),
              LAMBDA log :
            UpdateLoop(r.store, issue, outcome, k + 1, errs, log))))

\* The fields of BeadUiApp, and the databases, that a handler works on.
App ==
    [store |-> store, config |-> config, issues |-> issues,
     snapshot_cache |-> snapshot_cache, dependents_map |-> dependents_map,
     error_message |-> error_message, edit_modified |-> edit_modified,
     current_issue |-> current_issue, calls |-> <<>>, detailed |-> {}]

\* save_issue_changes that refreshes whether or not an update failed.
BeadUiApp_save_issue_changes_always_refresh(app, issue, outcome, fails, downDirs) ==
    Bind(UpdateLoop(app.store, issue, outcome, 1, <<>>, <<>>), LAMBDA u :
    Bind(BeadUiApp_refresh(u.store, app.config, app.snapshot_cache, fails,
                           downDirs), LAMBDA r :
       [app EXCEPT !.store = u.store, !.calls = u.calls,
                   !.error_message =
                       IF Len(u.errors) = 0 THEN None
                       ELSE Some("Failed to save: " \o Join(u.errors, ", ")),
                   !.edit_modified = IF Len(u.errors) = 0 THEN FALSE ELSE @,
                   !.current_issue = IF Len(u.errors) = 0 THEN None ELSE @,
                   !.issues = r.issues, !.snapshot_cache = r.snapshot_cache,
                   !.dependents_map = r.dependents_map,
                   !.detailed = DOMAIN r.snapshot_cache.get_issue_cache]))

\* save_issue_changes without its refresh.
BeadUiApp_save_issue_changes_no_refresh(app, issue, outcome, fails, downDirs) ==
    Bind(UpdateLoop(app.store, issue, outcome, 1, <<>>, <<>>), LAMBDA u :
       IF Len(u.errors) = 0
       THEN [app EXCEPT !.store = u.store, !.calls = u.calls,
                        !.error_message = None, !.edit_modified = FALSE,
                        !.current_issue = None,
                        !.detailed = DOMAIN app.snapshot_cache.get_issue_cache]
       ELSE [app EXCEPT !.store = u.store, !.calls = u.calls,
                        !.error_message =
                            Some("Failed to save: " \o Join(u.errors, ", "))])

\* save_issue_changes: outcome says how each update call ends, fails and
\* downDirs how the runs of bd show and bd list of its refresh end.
BeadUiApp_save_issue_changes(app, issue, outcome, fails, downDirs) ==
    Bind(UpdateLoop(app.store, issue, outcome, 1, <<>>, <<>>), LAMBDA u :
       IF Len(u.errors) = 0
       THEN Bind(BeadUiApp_refresh(u.store, app.config, app.snapshot_cache, fails,
                                   downDirs), LAMBDA r :
               [app EXCEPT !.store = u.store, !.calls = u.calls,
                           !.error_message = None, !.edit_modified = FALSE,
                           !.current_issue = None,
                           !.issues = r.issues,
                           !.snapshot_cache = r.snapshot_cache,
                           !.dependents_map = r.dependents_map,
                           !.detailed = DOMAIN r.snapshot_cache.get_issue_cache])
       ELSE [app EXCEPT !.store = u.store, !.calls = u.calls,
                        !.error_message =
                            Some("Failed to save: " \o Join(u.errors, ", "))])

\* The load that keeps the detail shown before when the lookup fails.
BeadUiApp_load_detail_keep_previous(g, cur, modified, err, issue_id, st, fails) ==
    IF ~cur.some \/ cur.v.id # issue_id
    THEN Bind(Get(g, issue_id, st, fails), LAMBDA r :
            IF r.result.ok
            THEN [g |-> r.g, current_issue |-> Some(r.result.val),
                  edit_modified |-> FALSE, error_message |-> None,
                  loaded |-> TRUE, ok |-> TRUE,
                  fetched |-> r.g.att[issue_id] > g.att[issue_id]]
            ELSE [g |-> r.g, current_issue |-> cur,
                  edit_modified |-> modified,
                  error_message |-> Some("Error loading issue: " \o r.result.err),
                  loaded |-> TRUE, ok |-> FALSE,
                  fetched |-> r.g.att[issue_id] > g.att[issue_id]])
    ELSE [g |-> g, current_issue |-> cur, edit_modified |-> modified,
          error_message |-> err, loaded |-> FALSE, ok |-> TRUE, fetched |-> FALSE]

\* Lines 1568-1580: show_detail_view_split loads the detail when none is
\* loaded or another issue's is.  loaded: the lookup was made; fetched: it
\* ran bd show.
BeadUiApp_load_detail(g, cur, modified, err, issue_id, st, fails) ==
    IF ~cur.some \/ cur.v.id # issue_id
    THEN Bind(Get(g, issue_id, st, fails), LAMBDA r :
            IF r.result.ok
            THEN [g |-> r.g, current_issue |-> Some(r.result.val),
                  edit_modified |-> FALSE, error_message |-> None,
                  loaded |-> TRUE, ok |-> TRUE,
                  fetched |-> r.g.att[issue_id] > g.att[issue_id]]
            ELSE [g |-> r.g, current_issue |-> None,
                  edit_modified |-> modified,
                  error_message |-> Some("Error loading issue: " \o r.result.err),
                  loaded |-> TRUE, ok |-> FALSE,
                  fetched |-> r.g.att[issue_id] > g.att[issue_id]])
    ELSE [g |-> g, current_issue |-> cur, edit_modified |-> modified,
          error_message |-> err, loaded |-> FALSE, ok |-> TRUE, fetched |-> FALSE]

\* issues.get(selected_index): the issue whose detail view a frame shows.
DetailIssue(sel, iss) ==
    IF sel.some /\ sel.v < Len(iss) THEN Some(iss[sel.v + 1]) ELSE None

\* show_list_view up to its events: the list table, then the detail view's
\* load for the selected issue.
BeadUiApp_show_list_view(app, sel, text, filters, by, ascending, fails) ==
    Bind(BeadUiApp_show_list_table(app.snapshot_cache, app.dependents_map,
                                   app.issues, text, filters, by, ascending,
                                   app.store, fails), LAMBDA t :
    Bind(DetailIssue(sel, app.issues), LAMBDA issue :
    Bind(IF issue.some
         THEN BeadUiApp_load_detail([cache |-> t.snapshot_cache, att |-> t.att],
                                    app.current_issue, app.edit_modified,
                                    app.error_message, issue.v.id, app.store, fails)
         ELSE [g |-> [cache |-> t.snapshot_cache, att |-> t.att],
               current_issue |-> app.current_issue,
               edit_modified |-> app.edit_modified,
               error_message |-> app.error_message,
               loaded |-> FALSE, ok |-> TRUE, fetched |-> FALSE], LAMBDA d :
       [snapshot_cache |-> d.g.cache, view |-> t.view,
        current_issue |-> d.current_issue, edit_modified |-> d.edit_modified,
        error_message |-> d.error_message,
        load_id |-> IF d.loaded THEN issue.v.id ELSE "",
        load_fetched |-> d.fetched, load_ok |-> d.ok])))

\* The save that has just run made its calls and none of them failed.
CleanSave(p) ==
    /\ p.op = "save" /\ p.saved_id # ""
    /\ \A k \in 1..Len(p.calls) : p.calls[k].result.ok

\* A frame is shown.
Show(fails) ==
    LET f == BeadUiApp_show_list_view(App, selected_index, filter_text,
                                      column_filters, sort_by, sort_ascending,
                                      fails)
    IN /\ snapshot_cache' = f.snapshot_cache
       /\ view' = f.view
       /\ current_issue' = f.current_issue
       /\ edit_modified' = f.edit_modified
       /\ error_message' = f.error_message
       /\ probe' = [Event(probe, "show") EXCEPT
                       !.shown = TRUE, !.load_id = f.load_id,
                       !.load_fetched = f.load_fetched,
                       !.load_ok = f.load_ok,
                       !.after_save = CleanSave(probe),
                       !.after_detail_refresh = (probe.op = "detail_refresh")]
       /\ UNCHANGED <<store, config, issues, selected_index, filter_text, sort_by,
                      sort_ascending, column_filters, dependents_map>>

detailFrame == <<store, config, issues, filter_text, error_message, sort_by,
                 sort_ascending, column_filters, dependents_map,
                 snapshot_cache, view>>

\* Lines 1117-1120 and 962-964: a click on a row of the table.
SelectRow(idx) ==
    /\ probe.shown
    /\ \E k \in 1..Len(view.filtered) : view.filtered[k].original_idx = idx
    /\ selected_index' = Some(idx)
    /\ probe' = Event(probe, "select")
    /\ UNCHANGED <<detailFrame, current_issue, edit_modified>>

\* The detail view of the frame shows a loaded issue, and an edit is left.
Editable ==
    /\ probe.shown /\ probe.edits < MaxEdits
    /\ DetailIssue(selected_index, issues).some
    /\ current_issue.some

\* An edit of the loaded issue that changes it.
Edit(edited) ==
    /\ Editable
    /\ edited # current_issue.v
    /\ current_issue' = Some(edited)
    /\ edit_modified' = TRUE
    /\ probe' = [Event(probe, "edit") EXCEPT !.edits = @ + 1]
    /\ UNCHANGED <<detailFrame, selected_index>>

\* Lines 1619-1625.
EditTitle(text) == Edit([current_issue.v EXCEPT !.title = text])

\* Lines 1628-1641.
EditStatus(status) == Edit([current_issue.v EXCEPT !.status = status])

\* Lines 1643-1656.
EditPriority(p) == Edit([current_issue.v EXCEPT !.priority = p])

\* Lines 1663-1676.
EditAssignee(text) ==
    Edit([current_issue.v EXCEPT
             !.assignee = IF text = "" THEN None ELSE Some(text)])

\* Lines 1691-1705.
EditNotes(text) ==
    Edit([current_issue.v EXCEPT !.notes = IF text = "" THEN None ELSE Some(text)])

\* Lines 1596-1601 and 1758-1762: the Save button, shown while
\* edit_modified; save_issue_changes runs when a detail is loaded.
SaveClick(outcome, fails, downDirs) ==
    /\ probe.shown /\ probe.saves < MaxSaves
    /\ DetailIssue(selected_index, issues).some
    /\ edit_modified
    /\ LET n == IF current_issue.some
                THEN BeadUiApp_save_issue_changes(App, current_issue.v, outcome,
                                                  fails, downDirs)
                ELSE App
       IN /\ store' = n.store
          /\ issues' = n.issues
          /\ snapshot_cache' = n.snapshot_cache
          /\ dependents_map' = n.dependents_map
          /\ error_message' = n.error_message
          /\ edit_modified' = n.edit_modified
          /\ current_issue' = n.current_issue
          /\ probe' = [Event(probe, "save") EXCEPT
                          !.saves = @ + 1,
                          !.saved_id = IF current_issue.some
                                       THEN current_issue.v.id ELSE "",
                          !.calls = n.calls, !.detailed = n.detailed]
    /\ UNCHANGED <<config, selected_index, filter_text, sort_by, sort_ascending,
                   column_filters, view>>

\* The Refresh button that clears the snapshot cache as well.
DetailRefreshClickClearingCache ==
    /\ probe.shown
    /\ DetailIssue(selected_index, issues).some
    /\ current_issue' = None
    /\ edit_modified' = FALSE
    /\ snapshot_cache' = SnapshotCache_clear(snapshot_cache)
    /\ probe' = Event(probe, "detail_refresh")
    /\ UNCHANGED <<store, config, issues, filter_text, error_message, sort_by,
                   sort_ascending, column_filters, dependents_map, view,
                   selected_index>>

\* Lines 1590-1592 and 1753-1756: the Refresh button of the detail view.
DetailRefreshClick ==
    /\ probe.shown
    /\ DetailIssue(selected_index, issues).some
    /\ current_issue' = None
    /\ edit_modified' = FALSE
    /\ probe' = Event(probe, "detail_refresh")
    /\ UNCHANGED <<detailFrame, selected_index>>

\* How the update calls of one save may end: each "ok" or the text bd fails
\* with, at most MaxFailingFields of them failing.
UpdateOutcomes ==
    {o \in [{UpdateFields[k] : k \in 1..Len(UpdateFields)} ->
               {"ok", "denied", "locked"}] :
        Cardinality({f \in DOMAIN o : o[f] # "ok"}) <= MaxFailingFields}

\* In the refresh of a save the run of bd show for a flaky id fails or not.
SaveFails ==
    {f \in RefreshFails : \A id \in IssueIds \ FlakyIds : f[id] = 0}

\* What the user types and picks in the detail view.
TitleTexts == {"t3"}
StatusChoices == {"closed"}
PriorityChoices == {2}
AssigneeTexts == {""}
NotesTexts == {""}

\* The rows the user clicks: b and c.
SelectRows == {1, 2}

Init == InitQuery({StoreApp("open", "open", "open", 1)})

Next ==
    \/ \E fails \in FailChoicesFor(snapshot_cache) : Show(fails)
    \/ \E idx \in SelectRows : SelectRow(idx)
    \/ \E text \in TitleTexts : EditTitle(text)
    \/ \E status \in StatusChoices : EditStatus(status)
    \/ \E p \in PriorityChoices : EditPriority(p)
    \/ \E text \in AssigneeTexts : EditAssignee(text)
    \/ \E text \in NotesTexts : EditNotes(text)
    \/ \E outcome \in UpdateOutcomes, fails \in SaveFails :
          SaveClick(outcome, fails, {})
    \/ DetailRefreshClick

Spec == Init /\ [][Next]_vars

---------------------------------------------------------------------------
(* C9, C10: what a save leaves behind.                                     *)

\* The update calls of the save observed that failed, in call order.
FailedCalls(p) ==
    LET Failed(c) == ~c.result.ok IN SelectSeq(p.calls, Failed)

\* The fields of the update calls of the save observed.
CalledFields(p) == [k \in 1..Len(p.calls) |-> p.calls[k].field]

\* The fields save_issue_changes is to update for an issue: title, status
\* and priority, and assignee and notes when they are set.
C9_FieldsOf(issue) ==
    <<"title", "status", "priority">>
       \o (IF issue.assignee.some THEN <<"assignee">> ELSE <<>>)
       \o (IF issue.notes.some THEN <<"notes">> ELSE <<>>)

\* "Failed to save: " and, for every failed call in turn, the field and
\* the detail of its failure, separated by ", ".
C9_Aggregated(failed) ==
    "Failed to save: " \o
       Join([k \in 1..Len(failed) |->
                failed[k].field \o ": " \o failed[k].result.err], ", ")

\* C9: when at least one update call of save_issue_changes fails,
\* edit_modified stays true, current_issue keeps the edited values,
\* error_message is the one aggregated message naming every failed field
\* with its detail, and nothing is refreshed: snapshot cache, issue list and
\* dependents map are as they were.
C9_FailedSaveKeepsEdit ==
    [][(probe'.op = "save" /\ probe'.saved_id # "" /\ Len(FailedCalls(probe')) > 0)
          => /\ edit_modified /\ edit_modified'
             /\ current_issue.some /\ current_issue' = current_issue
             /\ CalledFields(probe') = C9_FieldsOf(current_issue.v)
             /\ error_message' = Some(C9_Aggregated(FailedCalls(probe')))
             /\ snapshot_cache' = snapshot_cache
             /\ issues' = issues
             /\ dependents_map' = dependents_map]_vars

\* C9 witness: b with an edited title is saved; the assignee update fails
\* and the three other calls succeed, so the title has reached the database.
C9_Witness ==
    /\ probe.op = "save" /\ probe.saved_id = "b"
    /\ CalledFields(probe) = <<"title", "status", "priority", "assignee">>
    /\ CalledFields([calls |-> FailedCalls(probe)]) = <<"assignee">>
    /\ edit_modified
    /\ current_issue.some /\ current_issue.v.title = "t3"
    /\ store[PathA].rec["b"].title = "t3"
    /\ error_message = Some("Failed to save: assignee: denied")
    /\ \E k \in 1..Len(issues) : issues[k].id = "b" /\ issues[k].title = "t2"

\* What the databases hold for an id.
StoredRecord(id) ==
    store[CHOOSE p \in DOMAIN store : id \in DOMAIN store[p].rec].rec[id]

\* A detail or list entry says what the databases hold now.
C10_Fresh(issue) ==
    LET r == StoredRecord(issue.id) IN
    /\ issue.title = r.title /\ issue.status = r.status
    /\ issue.priority = r.priority
    /\ issue.assignee = r.assignee /\ issue.notes = r.notes

\* The state a full refresh leaves: the list as the databases hold it, in
\* the cache exactly the details the refresh fetched, each as the databases
\* hold it, and the dependents map rebuilt from those details.
C10_Refreshed ==
    /\ [k \in 1..Len(issues) |-> issues[k].id] = <<"a", "b", "c", "d">>
    /\ \A k \in 1..Len(issues) : C10_Fresh(issues[k])
    /\ DOMAIN snapshot_cache.get_issue_cache = probe.detailed
    /\ IssueSet \ FlakyIds \subseteq probe.detailed
    /\ \A id \in probe.detailed :
          /\ snapshot_cache.get_issue_cache[id].id = id
          /\ C10_Fresh(snapshot_cache.get_issue_cache[id])
    /\ \A A \in IssueSet, B \in IssueSet :
          B \in Dependents(A) <=>
             (B \in probe.detailed /\ A \in StoredDependencies(B))

\* What every reading of C10 says of the save itself: edit_modified becomes
\* false, current_issue is dropped and a full refresh has run.
C10_SaveStep ==
    CleanSave(probe') =>
       /\ edit_modified /\ ~edit_modified'
       /\ current_issue.some /\ current_issue' = None
       /\ C10_Refreshed'

\* The frame after a save whose calls all succeeded loads the saved issue.
C10_NextView ==
    CleanSave(probe) /\ probe'.op = "show" /\ probe'.load_id = probe.saved_id

---------------------------------------------------------------------------
(* C11: the save attempts every field.                                     *)

\* C11: save_issue_changes attempts the update of every applicable field
\* (title, status, priority, assignee when set, notes when set) whichever
\* earlier updates failed, and collects every failure: the message lists
\* each failed call, and there is none exactly when no call failed.
C11_EveryFieldAttempted ==
    [][(probe'.op = "save" /\ probe'.saved_id # "")
          => /\ Len(probe'.calls) =
                   3 + (IF current_issue.v.assignee.some THEN 1 ELSE 0)
                     + (IF current_issue.v.notes.some THEN 1 ELSE 0)
             /\ \A f \in {"title", "status", "priority"} :
                   \E k \in 1..Len(probe'.calls) : probe'.calls[k].field = f
             /\ current_issue.v.assignee.some =>
                   \E k \in 1..Len(probe'.calls) : probe'.calls[k].field = "assignee"
             /\ current_issue.v.notes.some =>
                   \E k \in 1..Len(probe'.calls) : probe'.calls[k].field = "notes"
             /\ error_message' =
                   IF Len(FailedCalls(probe')) = 0 THEN None
                   ELSE Some(C9_Aggregated(FailedCalls(probe')))]_vars

\* C11 witness: the first update call of a save failed, the calls after it
\* were made all the same, one of them succeeding and a later one failing,
\* and both failures are in the message.
C11_Witness ==
    /\ probe.op = "save" /\ probe.saved_id = "c"
    /\ Len(probe.calls) = 4
    /\ ~probe.calls[1].result.ok /\ probe.calls[2].result.ok
    /\ probe.calls[3].result.ok /\ ~probe.calls[4].result.ok
    /\ probe.calls[4].field = "notes"
    /\ error_message = Some("Failed to save: title: locked, notes: denied")

---------------------------------------------------------------------------
(* C17: the update calls of one save.                                      *)

\* The detail the edit started from: what the cache holds for the issue.
C17_Loaded(issue) == snapshot_cache.get_issue_cache[issue.id]

\* The fields in which the issue saved differs from the detail loaded.
C17_Changed(issue) ==
    {f \in {"title", "status", "priority", "assignee", "notes"} :
        CASE f = "title" -> issue.title # C17_Loaded(issue).title
          [] f = "status" -> issue.status # C17_Loaded(issue).status
          [] f = "priority" -> issue.priority # C17_Loaded(issue).priority
          [] f = "assignee" -> issue.assignee # C17_Loaded(issue).assignee
          [] f = "notes" -> issue.notes # C17_Loaded(issue).notes}

\* The calls of a save in full: title, status, priority in decimal, then
\* assignee and notes when they are set.
C17_Calls(issue) ==
    <<[field |-> "title", value |-> issue.title],
      [field |-> "status", value |-> issue.status],
      [field |-> "priority", value |-> ToString(issue.priority)]>>
       \o (IF issue.assignee.some
           THEN <<[field |-> "assignee", value |-> issue.assignee.v]>> ELSE <<>>)
       \o (IF issue.notes.some
           THEN <<[field |-> "notes", value |-> issue.notes.v]>> ELSE <<>>)

\* C17 as stated: a save makes one update call for each field the edit
\* changed, and no other.
C17_OneCallPerChangedField ==
    [][(probe'.op = "save" /\ probe'.saved_id # ""
           /\ current_issue.v.id \in DOMAIN snapshot_cache.get_issue_cache)
          => /\ {probe'.calls[k].field : k \in 1..Len(probe'.calls)}
                   = C17_Changed(current_issue.v)
             /\ Len(probe'.calls) = Cardinality(C17_Changed(current_issue.v))]_vars

\* C17, amended: a save makes one update call for each logical field of the
\* issue, changed or not, in the order title, status, priority (as a decimal
\* string), assignee if present, notes if present.
C17_OneCallPerField ==
    [][(probe'.op = "save" /\ probe'.saved_id # "")
          => [k \in 1..Len(probe'.calls) |->
                 [field |-> probe'.calls[k].field, value |-> probe'.calls[k].value]]
                = C17_Calls(current_issue.v)]_vars

\* C17 witness: b saved with only its title edited; title, status, priority
\* and assignee are written, in that order, and every call succeeds.
C17_Witness ==
    /\ probe.op = "save" /\ probe.saved_id = "b"
    /\ [k \in 1..Len(probe.calls) |-> probe.calls[k].field]
          = <<"title", "status", "priority", "assignee">>
    /\ [k \in 1..Len(probe.calls) |-> probe.calls[k].value]
          = <<"t3", "open", "1", "x">>
    /\ \A k \in 1..Len(probe.calls) : probe.calls[k].result.ok
    /\ store[PathA].rec["b"].title = "t3"

---------------------------------------------------------------------------
(* SpecDirs: the directory registry as a configuration file can hold it,    *)
(* compute_display_names and list_issues_from_all applied to it.            *)

\* How many directories the registry holds.
MaxDirs == 3

\* Another directory named repo, outside the home directory, and a
\* directory whose name no other has.
PathC == <<"srv", "repo">>
PathD == <<"home", "u", "proj">>

\* The databases of the four directories; a and c are in more than one.
StoreDirs ==
    Store0 @@
    (PathC :> Db(<<"b", "a">>,
                 ("b" :> StoredIssue("t2", "open", 2, None, None, <<>>)) @@
                 ("a" :> StoredIssue("T1", "open", 2, None, None, <<>>)))) @@
    (PathD :> Db(<<"d">>,
                 ("d" :> StoredIssue("t2", "open", 0, None, None, <<>>))))

\* A registry as AppConfig::load reads it: display_name defaults to "".
LoadedDirectories ==
    UNION {[1..n -> {DirectoryConfig(path, visible, "") :
                        path \in {PathA, PathB, PathC, PathD},
                        visible \in BOOLEAN}] : n \in 0..MaxDirs}

InitDirs ==
    /\ store = StoreDirs
    /\ issues = <<>>
    /\ selected_index = None
    /\ filter_text = ""
    /\ error_message = None
    /\ sort_by = "Priority"
    /\ sort_ascending = TRUE
    /\ current_issue = None
    /\ edit_modified = FALSE
    /\ column_filters = ColumnFiltersDefault
    /\ dependents_map = EmptyMap
    /\ view = ViewInit
    /\ config \in {[directories |-> d, sidebar_collapsed |-> FALSE] :
                      d \in LoadedDirectories}
    /\ snapshot_cache = SnapshotCache_new
    /\ probe = ProbeInit

dirsFrame == <<store, selected_index, filter_text, error_message, sort_by,
               sort_ascending, current_issue, edit_modified, column_filters,
               dependents_map, snapshot_cache, view>>

\* config.compute_display_names()
ComputeDisplayNames ==
    /\ config' = [config EXCEPT
                     !.directories = AppConfig_compute_display_names(@)]
    /\ probe' = Event(probe, "names")
    /\ UNCHANGED <<dirsFrame, issues>>

\* self.issues = BdClient::list_issues_from_all(&self.config.directories)
ListFromAll(downDirs) ==
    /\ issues' = BdClient_list_issues_from_all(store, config.directories,
                                               downDirs, 1)
    /\ probe' = [Event(probe, "list") EXCEPT !.down_dirs = downDirs]
    /\ UNCHANGED <<dirsFrame, config>>

NextDirs ==
    \/ ComputeDisplayNames
    \/ \E downDirs \in SUBSET (1..Len(config.directories)) : ListFromAll(downDirs)

SpecDirs == InitDirs /\ [][NextDirs]_vars

---------------------------------------------------------------------------
(* C12: the partial-failure policy of list_issues_from_all.                *)

\* Directory k is listed: it is visible and its run of bd list succeeded.
Listed(k) == config.directories[k].visible /\ k \notin probe.down_dirs

\* The name directory k's issues are stamped with.
SourceName(k) ==
    LET d == config.directories[k] IN
    IF d.display_name = "" THEN d.path[Len(d.path)] ELSE d.display_name

\* Entry e of the result is the m-th issue of directory k's database.
IsIssueOf(e, k, m) ==
    LET db == store[config.directories[k].path] IN
    /\ e.id = db.ids[m]
    /\ e.title = db.rec[db.ids[m]].title
    /\ e.priority = db.rec[db.ids[m]].priority
    /\ e.source_directory = SourceName(k)

\* The places (directory, position) of the issues of the listed directories.
ListedPlaces ==
    {km \in (1..Len(config.directories)) \X (1..3) :
        /\ Listed(km[1])
        /\ km[2] <= Len(store[config.directories[km[1]].path].ids)}

\* C12: a visible directory whose list call fails is skipped and contributes
\* no issue, the issues of every other visible directory are all returned,
\* and a directory that is not visible contributes none.
C12_PartialFailurePolicy ==
    probe.op = "list" =>
       /\ Len(issues) = Cardinality(ListedPlaces)
       /\ \A km \in ListedPlaces :
             \E i \in 1..Len(issues) : IsIssueOf(issues[i], km[1], km[2])
       /\ \A i \in 1..Len(issues) :
             \E km \in ListedPlaces : IsIssueOf(issues[i], km[1], km[2])

\* C12 witness: of three directories the first is visible and its list
\* fails, the second is not visible, and the third is visible and listed;
\* the result is the third directory's issues.
C12_Witness ==
    /\ probe.op = "list"
    /\ Len(config.directories) = 3
    /\ config.directories[1].visible /\ config.directories[1].path = PathA
    /\ ~config.directories[2].visible /\ config.directories[2].path = PathD
    /\ config.directories[3].visible /\ config.directories[3].path = PathB
    /\ probe.down_dirs = {1}
    /\ [i \in 1..Len(issues) |-> issues[i].id] = <<"c", "a">>

---------------------------------------------------------------------------
(* C19: the order and the stamps of list_issues_from_all.                  *)

\* How many issues the listed directories before directory k hold.
C19_Offset(k) == Cardinality({km \in ListedPlaces : km[1] < k})

\* C19: the result is the concatenation of the listed directories' results
\* in registration order: the m-th issue of directory k stands right after
\* all issues of the listed directories before k and the first m - 1 of k,
\* ids met before included, and is stamped with k's display name, or with
\* the base name of k's path when the display name is empty.
C19_ConcatenationInOrder ==
    probe.op = "list" =>
       /\ Len(issues) = C19_Offset(Len(config.directories) + 1)
       /\ \A km \in ListedPlaces :
             /\ IsIssueOf(issues[C19_Offset(km[1]) + km[2]], km[1], km[2])
             /\ issues[C19_Offset(km[1]) + km[2]].source_directory =
                   IF config.directories[km[1]].display_name = ""
                   THEN config.directories[km[1]].path[
                           Len(config.directories[km[1]].path)]
                   ELSE config.directories[km[1]].display_name

\* C19 witness: ~/a/repo and ~/b/repo, named, both listed: a, b, c of the
\* first, then c, a of the second, each stamped with its directory's name.
C19_Witness ==
    /\ probe.op = "list"
    /\ [k \in 1..Len(issues) |-> issues[k].id] = <<"a", "b", "c", "c", "a">>
    /\ [k \in 1..Len(issues) |-> issues[k].source_directory] =
          <<"repo (~/a/repo)", "repo (~/a/repo)", "repo (~/a/repo)",
            "repo (~/b/repo)", "repo (~/b/repo)">>

---------------------------------------------------------------------------
(* C15: the display names compute_display_names gives.                     *)

\* The paths of the model with the home directory written as ~.
C15_TildePath(path) ==
    CASE path = PathA -> "~/a/repo"
      [] path = PathB -> "~/b/repo"
      [] path = PathC -> "/srv/repo"
      [] path = PathD -> "~/proj"

C15_BaseName(path) == path[Len(path)]

\* Directory k's base name is the base name of no other registered directory.
C15_Unique(k) ==
    \A j \in 1..Len(config.directories) :
       j # k => C15_BaseName(config.directories[j].path)
                   # C15_BaseName(config.directories[k].path)

\* The rule: the base name when unique, "<base name> (<path with ~>)" when
\* shared.
C15_Rule ==
    \A k \in 1..Len(config.directories) :
       config.directories[k].display_name =
          IF C15_Unique(k) THEN C15_BaseName(config.directories[k].path)
          ELSE C15_BaseName(config.directories[k].path) \o " ("
                  \o C15_TildePath(config.directories[k].path) \o ")"

\* C15 as stated: the rule, and the directories repo under ~/a and under ~/b,
\* registered together, are named "repo (~/a)" and "repo (~/b)".
C15_DisplayNamesAsStated ==
    probe.op = "names" =>
       /\ C15_Rule
       /\ \A i, j \in 1..Len(config.directories) :
             (config.directories[i].path = PathA /\ config.directories[j].path = PathB)
                => /\ config.directories[i].display_name = "repo (~/a)"
                   /\ config.directories[j].display_name = "repo (~/b)"

\* C15, amended: the rule, and the directories repo under ~/a and under ~/b,
\* registered together, are named "repo (~/a/repo)" and "repo (~/b/repo)":
\* the path in the parentheses is the directory's whole path.
C15_DisplayNames ==
    probe.op = "names" =>
       /\ C15_Rule
       /\ \A i, j \in 1..Len(config.directories) :
             (config.directories[i].path = PathA /\ config.directories[j].path = PathB)
                => /\ config.directories[i].display_name = "repo (~/a/repo)"
                   /\ config.directories[j].display_name = "repo (~/b/repo)"

\* C15 witness: ~/a/repo, ~/b/repo and ~/proj registered and named.
C15_Witness ==
    /\ probe.op = "names"
    /\ [k \in 1..Len(config.directories) |-> config.directories[k].path]
          = <<PathA, PathB, PathD>>
    /\ [k \in 1..Len(config.directories) |-> config.directories[k].display_name]
          = <<"repo (~/a/repo)", "repo (~/b/repo)", "proj">>

---------------------------------------------------------------------------
(* SpecMenu: the header menus over issue sets of about twenty issues.  The *)
(* issues are spread over MenuDirs directories, each holding up to four;   *)
(* the e-th issue overall (from 0) has priority e and assignee e mod 20,   *)
(* so the Priority column has as many values as there are issues and the   *)
(* Assignee column at most 20.                                             *)

MenuDirs == 6
MenuSizes == 20..21
MenuIds == <<"a", "b", "c", "d">>

MenuPath(k) == <<"home", "u", ToString(k)>>

MenuDb(k, n) ==
    LET first == Len(MenuIds) * (k - 1)
        held == IF n - first > Len(MenuIds) THEN Len(MenuIds)
                ELSE IF n - first < 0 THEN 0 ELSE n - first
    IN Db(SubSeq(MenuIds, 1, held),
          [id \in {MenuIds[j] : j \in 1..held} |->
              LET e == first + (CHOOSE j \in 1..held : MenuIds[j] = id) - 1 IN
              StoredIssue("T1", "open", e, Some(ToString(e % 20)), None, <<>>)])

StoreMenu(n) ==
    [path \in {MenuPath(k) : k \in 1..MenuDirs} |->
        MenuDb(CHOOSE k \in 1..MenuDirs : MenuPath(k) = path, n)]

ConfigMenu ==
    [directories |-> AppConfig_compute_display_names(
                        [k \in 1..MenuDirs |-> DirectoryConfig(MenuPath(k), TRUE, "")]),
     sidebar_collapsed |-> FALSE]

\* The application as Default leaves it over one of the databases, the first
\* refresh done with every detail fetched.
InitMenu ==
    /\ store \in {StoreMenu(n) : n \in MenuSizes}
    /\ config = ConfigMenu
    /\ LET r == BeadUiApp_refresh(store, config, SnapshotCache_new,
                                  [id \in IssueIds |-> 0], {}) IN
          /\ issues = r.issues
          /\ snapshot_cache = r.snapshot_cache
          /\ dependents_map = r.dependents_map
          /\ error_message = r.error_message
    /\ selected_index = None
    /\ filter_text = ""
    /\ sort_by = "Priority"
    /\ sort_ascending = TRUE
    /\ current_issue = None
    /\ edit_modified = FALSE
    /\ column_filters = ColumnFiltersDefault
    /\ view = ViewInit
    /\ probe = ProbeInit

MenuSortColumns == {"Id", "Priority"}
MenuColumns == {"Status", "Priority", "Type"}
MenuValues == {"closed", "P0", "task"}

NextMenu ==
    \/ \E fails \in FailChoicesFor(snapshot_cache) : Render(fails)
    \/ \E sort_col \in MenuSortColumns, fails \in FailChoicesFor(snapshot_cache) :
          ClickSort(sort_col, fails)
    \/ \E column \in MenuColumns, fails \in FailChoicesFor(snapshot_cache) :
          \E value \in Offered(column) \cap MenuValues :
             FilterToggle(column, value, fails)

SpecMenu == InitMenu /\ [][NextMenu]_vars

\* The distinct values a column projects over the current issue set.
C13_Distinct(column) ==
    {ProjectColumn(view.displays[k].issue, column, view.displays[k].readiness,
                   view.displays[k].blockers_count,
                   view.displays[k].dependents_count) :
        k \in 1..Len(view.displays)}

\* C13: the header menu of a column with more than 20 distinct values has no
\* per-value entry, the menu of a column with 20 or fewer has one entry per
\* value, and the Id and Title columns have no entry whatever their
\* cardinality.
C13_MenusGatedByCardinality ==
    \A column \in SortColumn :
       /\ view.cardinality[column] = Cardinality(C13_Distinct(column))
       /\ view.menu[column] =
             IF column \in {"Id", "Title"} THEN {}
             ELSE IF Cardinality(C13_Distinct(column)) > 20 THEN {}
             ELSE C13_Distinct(column)

\* C13 witness: a frame over 21 issues in which the Priority column has 21
\* values and no entry, the Assignee column exactly 20 values and 20
\* entries, and the Id column four values and no entry.
C13_Witness ==
    /\ Len(view.displays) = 21
    /\ view.cardinality["Priority"] = 21 /\ view.menu["Priority"] = {}
    /\ view.cardinality["Assignee"] = 20
    /\ Cardinality(view.menu["Assignee"]) = 20
    /\ view.cardinality["Id"] = 4 /\ view.menu["Id"] = {}
    /\ view.menu["Title"] = {}

---------------------------------------------------------------------------
(* SpecText: the search box.  Issue d has the description "x", which is    *)
(* also b's assignee; d is deferred, and c is open, in progress or closed. *)

TextStores ==
    {[StoreApp("open", c_status, "deferred", 1)
         EXCEPT ![PathB].rec["d"].description = "x"] :
        c_status \in {"open", "in_progress", "closed"}}

InitText == InitQuery(TextStores)

\* What the runs type into the search box.
FilterTexts == {"", "T1", "x", "-", "0", "1", "2", "deferred", "blocked", "ready"}

\* Line 848: the search box holds text; the frame shows the list table.
TypeFilterText(text, fails) ==
    /\ filter_text' = text
    /\ LET r == BeadUiApp_show_list_table(snapshot_cache, dependents_map, issues,
                                          text, column_filters, sort_by,
                                          sort_ascending, store, fails)
       IN /\ snapshot_cache' = r.snapshot_cache
          /\ view' = r.view
    /\ probe' = [probe EXCEPT !.op = "text", !.col = ""]
    /\ UNCHANGED <<store, config, issues, selected_index, error_message,
                   current_issue, edit_modified, dependents_map, sort_by,
                   sort_ascending, column_filters>>

NextText ==
    \/ \E fails \in FailChoicesFor(snapshot_cache) : Render(fails)
    \/ \E text \in FilterTexts, fails \in FailChoicesFor(snapshot_cache) :
          TypeFilterText(text, fails)

SpecText == InitText /\ [][NextText]_vars

\* The lower-cased filter is a substring of one of the searched fields of a
\* row, the text fields compared in lower case.
C14_Matches(d, filter) ==
    \/ \E field \in {d.issue.id, d.issue.title, d.issue.description,
                     d.issue.status, d.issue.issue_type, d.readiness} :
          Contains(ToLowercase(field), filter)
    \/ d.issue.assignee.some /\ Contains(ToLowercase(d.issue.assignee.v), filter)
    \/ \E count \in {d.blockers_count, d.dependents_count} :
          Contains(Chars(ToString(count)), filter)

\* The row of issue d is in the view.
C14_Kept(d) ==
    \E j \in 1..Len(view.filtered) : view.filtered[j].original_idx = d.original_idx

---------------------------------------------------------------------------
(* SpecQuery: the search box, the header clicks, the filter menus and the  *)
(* Refresh button together, over four issues of which d is closed.         *)

QueryStores == {StoreApp("open", "open", "closed", 1)}

InitQueries == InitQuery(QueryStores)

QuerySortColumns == {"Status"}
QueryFilterValues == {"blocked"}
QueryTexts == {"", "T1"}

NextQuery ==
    \/ \E fails \in FailChoicesFor(snapshot_cache) : Render(fails)
    \/ \E sort_col \in QuerySortColumns, fails \in FailChoicesFor(snapshot_cache) :
          ClickSort(sort_col, fails)
    \/ \E fails \in FailChoicesFor(snapshot_cache) :
          \E value \in Offered("Status") \cap QueryFilterValues :
             FilterToggle("Status", value, fails)
    \/ \E text \in QueryTexts, fails \in FailChoicesFor(snapshot_cache) :
          TypeFilterText(text, fails)
    \/ \E fails \in SaveFails : RefreshClick(fails, {})

SpecQuery == InitQueries /\ [][NextQuery]_vars

\* The last refresh got the detail of every issue it listed.
C18_FullRefresh == IssueSet # {} /\ IssueSet \subseteq probe.detailed

\* C18: after a refresh that fetched the detail of every listed issue, a
\* frame, a sort click, a filter toggle or a change of the filter text runs
\* no bd show and leaves the cache as it is, however often they come, until
\* the next refresh.
C18_QueriesMakeNoGatewayCall ==
    [][(C18_FullRefresh /\ probe'.op \in {"render", "sort", "toggle", "text"})
          => /\ view'.fetched = {}
             /\ snapshot_cache' = snapshot_cache]_vars

\* C18 witness: after such a refresh the list is shown sorted by another
\* column; readiness looked the details of a, b and c up, and no bd show ran.
C18_Witness ==
    /\ C18_FullRefresh
    /\ probe.op = "sort" /\ sort_by = "Status"
    /\ Len(view.displays) = 4
    /\ \A k \in 1..3 : view.lookups[k].called /\ view.lookups[k].fetch_ok
    /\ view.fetched = {}

---------------------------------------------------------------------------
(* C23: the detail load of a frame.                                        *)

\* The texts bd's failures are reported with.
C23_Failures == {"bd failed", "not found"}

\* C23: when a frame's lookup of the selected issue fails, error_message
\* becomes "Error loading issue: " and the failure, current_issue becomes
\* empty and edit_modified stays as it was; when it succeeds, current_issue
\* becomes the issue the lookup returned, edit_modified false and
\* error_message empty.
C23_DetailLoadOutcome ==
    [][(probe'.op = "show" /\ probe'.load_id # "") =>
          IF probe'.load_ok
          THEN /\ probe'.load_id \in DOMAIN snapshot_cache'.get_issue_cache
               /\ current_issue' =
                     Some(snapshot_cache'.get_issue_cache[probe'.load_id])
               /\ edit_modified' = FALSE
               /\ error_message' = None
          ELSE /\ error_message' \in
                     {Some("Error loading issue: " \o e) : e \in C23_Failures}
               /\ current_issue' = None
               /\ edit_modified' = edit_modified]_vars

\* C23 witness: with an unsaved edit of another issue, the lookup of c has
\* failed: no detail is loaded, the message is set and edit_modified stands.
C23_Witness ==
    /\ probe.op = "show" /\ probe.load_id = "c" /\ ~probe.load_ok
    /\ current_issue = None
    /\ edit_modified
    /\ error_message = Some("Error loading issue: bd failed")

---------------------------------------------------------------------------
(* SpecSources: refresh over two directories that share ids, under a       *)
(* registry as AppConfig::load reads it or with its display names computed. *)

\* ~/a/repo and ~/b/repo as the configuration file lists them.
SourcesLoaded ==
    {<<DirectoryConfig(PathA, va, ""), DirectoryConfig(PathB, vb, "")>> :
        va \in BOOLEAN, vb \in BOOLEAN}

SourcesRegistries ==
    {[directories |-> d, sidebar_collapsed |-> FALSE] :
        d \in SourcesLoaded \cup
              {AppConfig_compute_display_names(l) : l \in SourcesLoaded}}

\* The databases hold a, b and c only.
SourcesFails == {f \in RefreshFails : f["d"] = 0}

\* Default: the registry is loaded and refresh() runs.
InitSources ==
    /\ store = Store0
    /\ config \in SourcesRegistries
    /\ \E fails \in SourcesFails :
          LET r == BeadUiApp_refresh(store, config, SnapshotCache_new, fails, {}) IN
          /\ issues = r.issues
          /\ snapshot_cache = r.snapshot_cache
          /\ dependents_map = r.dependents_map
          /\ error_message = r.error_message
          /\ probe = [ProbeInit EXCEPT
                         !.op = "refresh",
                         !.detailed = DOMAIN r.snapshot_cache.get_issue_cache,
                         !.refetched = Refetched(r)]
    /\ selected_index = None
    /\ filter_text = ""
    /\ sort_by = "Priority"
    /\ sort_ascending = TRUE
    /\ current_issue = None
    /\ edit_modified = FALSE
    /\ column_filters = ColumnFiltersDefault
    /\ view = ViewInit

NextSources ==
    \/ \E fails \in SourcesFails, downDirs \in SUBSET {1, 2} :
          RefreshClick(fails, downDirs)
    \/ \E k \in 1..2, fails \in SourcesFails, downDirs \in SUBSET {1, 2} :
          ToggleVisible(k, fails, downDirs)

SpecSources == InitSources /\ [][NextSources]_vars

---------------------------------------------------------------------------
(* C24: the source registrations a refresh leaves.                         *)

\* C24: after a refresh, for every issue of the aggregated list, the m-th of
\* listed directory k, issue_sources holds under the issue's id the issue's
\* source_directory and the path of directory k, so that a lookup of the
\* issue runs bd show on the database it was listed from.
C24_SourcesOfListedIssues ==
    probe.op = "refresh" =>
       \A km \in ListedPlaces :
          LET issue == issues[C19_Offset(km[1]) + km[2]] IN
          /\ issue.id \in DOMAIN snapshot_cache.issue_sources
          /\ snapshot_cache.issue_sources[issue.id] =
                [source_directory |-> issue.source_directory,
                 db_path |-> Some(config.directories[km[1]].path)]

---------------------------------------------------------------------------
(* SpecSelect: the selection under row clicks, arrow keys, the blocker and *)
(* dependent buttons, refreshes, visibility toggles, edits and saves.      *)

\* Lines 982-990: ArrowDown.
ArrowDown ==
    /\ probe.shown
    /\ selected_index' =
          IF selected_index.some
          THEN IF selected_index.v + 1 < Len(issues)
               THEN Some(selected_index.v + 1) ELSE selected_index
          ELSE IF Len(issues) > 0 THEN Some(0) ELSE selected_index
    /\ probe' = Event(probe, "arrow_down")
    /\ UNCHANGED <<detailFrame, current_issue, edit_modified>>

\* Lines 992-998: ArrowUp.
ArrowUp ==
    /\ probe.shown
    /\ selected_index' =
          IF selected_index.some /\ selected_index.v > 0
          THEN Some(selected_index.v - 1) ELSE selected_index
    /\ probe' = Event(probe, "arrow_up")
    /\ UNCHANGED <<detailFrame, current_issue, edit_modified>>

\* self.issues.iter().position(|i| i.id == id)
Position(iss, id) ==
    IF \E k \in 1..Len(iss) : iss[k].id = id
    THEN Some((CHOOSE k \in 1..Len(iss) :
                 /\ iss[k].id = id
                 /\ \A j \in 1..(k - 1) : iss[j].id # id) - 1)
    ELSE None

\* Lines 1719-1722, 1738-1741 and 1764-1768: a click on the button of a
\* blocker or a dependent named id.
NavTo(id) ==
    /\ selected_index' = IF Position(issues, id).some
                         THEN Position(issues, id) ELSE selected_index
    /\ current_issue' = IF Position(issues, id).some THEN None ELSE current_issue
    /\ edit_modified' = IF Position(issues, id).some THEN FALSE ELSE edit_modified
    /\ probe' = Event(probe, "nav")
    /\ UNCHANGED detailFrame

\* The detail view of the frame shows a loaded issue.
DetailShown ==
    /\ probe.shown
    /\ DetailIssue(selected_index, issues).some
    /\ current_issue.some

\* Lines 1716-1725: the button of the k-th blocker.
NavToBlocker(k) ==
    /\ DetailShown
    /\ k \in 1..Len(current_issue.v.dependencies)
    /\ NavTo(current_issue.v.dependencies[k].id)

\* Lines 1732-1746: the button of the k-th dependent, shown when the
\* dependent is in the list.
NavToDependent(k) ==
    /\ DetailShown
    /\ current_issue.v.id \in DOMAIN dependents_map
    /\ k \in 1..Len(dependents_map[current_issue.v.id])
    /\ Position(issues, dependents_map[current_issue.v.id][k]).some
    /\ NavTo(dependents_map[current_issue.v.id][k])

\* No run of bd show fails.
NoFails == [i \in IssueIds |-> 0]

\* Every update call succeeds.
AllOk == [f \in {UpdateFields[k] : k \in 1..Len(UpdateFields)} |-> "ok"]

InitSelect == InitQuery({StoreApp("open", "open", "open", 1)})

NextSelect ==
    \/ Show(NoFails)
    \/ \E idx \in 0..3 : SelectRow(idx)
    \/ ArrowDown
    \/ ArrowUp
    \/ \E k \in 1..2 : NavToBlocker(k)
    \/ \E k \in 1..2 : NavToDependent(k)
    \/ \E text \in TitleTexts : EditTitle(text)
    \/ SaveClick(AllOk, NoFails, {})
    \/ DetailRefreshClick
    \/ \E downDirs \in RefreshDown : RefreshClick(NoFails, downDirs)
    \/ \E k \in 1..2 : ToggleVisible(k, NoFails, {})

SpecSelect == InitSelect /\ [][NextSelect]_vars

---------------------------------------------------------------------------
(* C25: the selection across the handlers.                                 *)

\* The handlers that are not a selection of the user's.
C25_Keeping == {"show", "edit", "save", "detail_refresh", "refresh"}

\* C25: after every step a selected_index that is set is an index into the
\* issue list; a refresh, a visibility toggle, a save or a frame leaves it
\* designating the issue id it designated before; ArrowDown leaves it at
\* most at the last issue and ArrowUp at least at index 0.
C25_SelectionStaysValid ==
    [][/\ selected_index'.some => selected_index'.v < Len(issues')
       /\ (selected_index.some /\ selected_index.v < Len(issues)
             /\ probe'.op \in C25_Keeping) =>
             /\ selected_index'.some
             /\ selected_index'.v < Len(issues')
             /\ issues'[selected_index'.v + 1].id = issues[selected_index.v + 1].id
       /\ (probe'.op = "arrow_down" /\ selected_index'.some) =>
             selected_index'.v + 1 <= Len(issues')
       /\ (probe'.op = "arrow_up" /\ selected_index'.some) =>
             selected_index'.v >= 0]_vars

---------------------------------------------------------------------------
(* C26: "Clear all filters".                                               *)

\* C26: after "Clear all filters" has been chosen in a column's header menu
\* the column excludes no value: has_active_filters is false for it.
C26_ClearAllLeavesNoFilter ==
    probe.op = "clear_all" =>
       ~ColumnFilter_has_active_filters(
           IF probe.col \in DOMAIN column_filters
           THEN column_filters[probe.col] ELSE ColumnFilter_new)

---------------------------------------------------------------------------
(* C28: a save of an issue whose assignee or notes have been cleared.      *)

\* The save observed made no update call that failed.
C28_ReportsSuccess(calls) == \A k \in 1..Len(calls) : calls[k].result.ok

\* What the databases hold in an optional field of an issue, per database.
C28_Stored(st, id, f) ==
    [p \in {q \in DOMAIN st : id \in DOMAIN st[q].rec} |->
        IF f = "assignee" THEN st[p].rec[id].assignee ELSE st[p].rec[id].notes]

\* The optional field f of the issue is absent.
C28_Absent(issue, f) ==
    IF f = "assignee" THEN ~issue.assignee.some ELSE ~issue.notes.some

\* C28: a save of an issue whose assignee (notes) is absent makes no update
\* call for assignee (notes) and leaves what the databases hold for that
\* field as it was; when no call of the save fails, edit_modified becomes
\* false all the same.
C28_ClearedFieldIsNotWritten ==
    [][(probe'.op = "save" /\ probe'.saved_id # "") =>
          /\ \A f \in {"assignee", "notes"} :
                C28_Absent(current_issue.v, f) =>
                   /\ \A k \in 1..Len(probe'.calls) : probe'.calls[k].field # f
                   /\ C28_Stored(store', current_issue.v.id, f) =
                         C28_Stored(store, current_issue.v.id, f)
          /\ C28_ReportsSuccess(probe'.calls) => edit_modified' = FALSE]_vars

\* C28 witness: b, whose assignee x has been cleared in the detail view, is
\* saved: title, status and priority are written, every call succeeds,
\* edit_modified is false and the database still holds the assignee x.
C28_Witness ==
    /\ probe.op = "save" /\ probe.saved_id = "b"
    /\ [k \in 1..Len(probe.calls) |-> probe.calls[k].field]
          = <<"title", "status", "priority">>
    /\ C28_ReportsSuccess(probe.calls)
    /\ ~edit_modified
    /\ store[PathA].rec["b"].assignee = Some("x")

---------------------------------------------------------------------------
(* C29: the Refresh button of the detail view.                             *)

\* The id of the issue the detail view is shown for.
C29_SelectedId == DetailIssue(selected_index, issues).v.id

\* C29: the detail view's Refresh empties current_issue and resets
\* edit_modified and leaves snapshot_cache, issues and dependents_map as they
\* were; the frame after it loads the selected issue's detail, from the
\* memoized value and without a run of bd show when the id is memoized; and
\* a memoized detail is dropped or replaced only by a refresh().
C29_DetailRefreshKeepsSnapshot ==
    [][/\ probe'.op = "detail_refresh" =>
             /\ current_issue' = None /\ edit_modified' = FALSE
             /\ UNCHANGED <<snapshot_cache, issues, dependents_map>>
       /\ (probe.op = "detail_refresh" /\ probe'.op = "show") =>
             /\ probe'.load_id = C29_SelectedId
             /\ C29_SelectedId \in DOMAIN snapshot_cache.get_issue_cache =>
                   /\ ~probe'.load_fetched
                   /\ current_issue' =
                         Some(snapshot_cache.get_issue_cache[C29_SelectedId])
       /\ (\E id \in DOMAIN snapshot_cache.get_issue_cache :
              \/ id \notin DOMAIN snapshot_cache'.get_issue_cache
              \/ snapshot_cache'.get_issue_cache[id] #
                    snapshot_cache.get_issue_cache[id]) =>
             (probe'.op = "save" /\ C28_ReportsSuccess(probe'.calls))]_vars

\* C29 witness: b was edited and not saved, the detail view's Refresh was
\* clicked, and the next frame shows b as memoized, without a run of bd show.
C29_Witness ==
    /\ probe.op = "show" /\ probe.after_detail_refresh
    /\ probe.edits = 1 /\ probe.saves = 0
    /\ probe.load_id = "b" /\ ~probe.load_fetched
    /\ ~edit_modified
    /\ current_issue = Some(snapshot_cache.get_issue_cache["b"])

---------------------------------------------------------------------------
(* C30: what becomes of an unsaved edit.                                   *)

\* C30: while edit_modified is true the edited current_issue stays loaded
\* and edit_modified stays true over every step (a further edit changes the
\* issue only), except a save none of whose calls fails and the detail
\* view's Refresh: a row click, a blocker or dependent button, an arrow key,
\* a list refresh and the frames after them do not discard the edit.
C30_EditLostOnlyBySaveOrRefresh ==
    [][(edit_modified /\ current_issue.some) =>
          \/ probe'.op = "save" /\ C28_ReportsSuccess(probe'.calls)
          \/ probe'.op = "detail_refresh"
          \/ /\ edit_modified'
             /\ current_issue'.some
             /\ probe'.op # "edit" => current_issue' = current_issue]_vars

===========================================================================
